---------------------------- MODULE Spec2Model ----------------------------
(***************************************************************************)
(* Core of full.js: the segment parser, the route tree built by            *)
(* Router.addRoute, the matcher, the middleware chain, Router.execute and  *)
(* Router.group, navigations served concurrently, the MemoryCache with its *)
(* revalidation queue, DataManager.fetch and DataManager.mutate.           *)
(*                                                                         *)
(* A JavaScript string is modelled as the sequence of its characters, each *)
(* character a one-character TLA+ string, so that splitting, joining and   *)
(* the three segment regular expressions are computed character by         *)
(* character.                                                              *)
(***************************************************************************)
EXTENDS Integers, Sequences, FiniteSets, TLC

VARIABLES
    parseInput,     \* the pattern handed to parseRoute (undefined: no call yet)
    parseResult,    \* what parseRoute returned for it, or the error it threw
    routeTree,      \* Router.routeTree: key path from the root |-> RouteNode
    addCalls,       \* history: the number of addRoute calls made
    addOutcome,     \* history: the last addRoute call, and what it threw
    matchPath,      \* the pathname of the last matchRoute call on this tree
    matchResult,    \* what that call returned
    middlewares,    \* MiddlewareChain.middlewares
    regOrder,       \* history: handler names in the order they were registered
    chainState,     \* MiddlewareChain.execute: idle, before, after, resolved, rejected
    chainList,      \* the two filtered lists execute computed as it started
    index,          \* the `index` variable of the running executeChain
    stack,          \* the activations of executeChain and of the handlers, innermost last
    invoked,        \* history: handler names in invocation order
    chainError,     \* the error in flight, then the one execute rejected with
    navState,       \* Router.execute: where the current call stands
    navPath,        \* the pathname it was called with
    navMatch,       \* what matchRoute returned to it
    navOutcome,     \* what it threw or returned
    navCalls,       \* history: the number of Router.execute calls made
    cache,          \* MemoryCache.cache: key |-> entry, undefined when absent
    revalidationQueue, \* MemoryCache.revalidationQueue
    isRevalidating, \* MemoryCache.isRevalidating
    timers,         \* the pending setTimeout callbacks of the cache, oldest first
    now,            \* Date.now()
    inFlight,       \* the revalidate calls that are awaiting Promise.all
    processed,      \* history: key |-> times processed since a pass last began at rest
    cacheOp,        \* history: the last operation on the cache and its result
    fetchCall,      \* the DataManager.fetch call awaiting its fetcher, if any,
                    \* with what it read from the cache
    fetchOutcome,   \* what the last DataManager.fetch call returned or threw
    groupCall,      \* history: the Router.group call just made, what it returned
    runs,           \* the Router.execute calls made on a router that serves
                    \* several navigations at once, each with its own state
    mutations       \* the DataManager.mutate calls made: what each read
                    \* from the cache, its options and how it stands

vars == << parseInput, parseResult, routeTree, addCalls, addOutcome,
           matchPath, matchResult, middlewares, regOrder, chainState,
           chainList, index, stack, invoked, chainError,
           navState, navPath, navMatch, navOutcome, navCalls,
           cache, revalidationQueue, isRevalidating, timers, now, inFlight,
           processed, cacheOp, fetchCall, fetchOutcome, groupCall, runs,
           mutations >>

parseVars == << parseInput, parseResult >>
routeVars == << routeTree, addCalls, addOutcome, matchPath, matchResult >>
chainVars == << middlewares, regOrder, chainState, chainList, index, stack,
                invoked, chainError >>
navVars == << navState, navPath, navMatch, navOutcome, navCalls >>
cacheVars == << cache, revalidationQueue, isRevalidating, timers, now,
                inFlight, processed, cacheOp, fetchCall, fetchOutcome >>
groupVars == << groupCall >>
runVars == << runs >>
mutateVars == << mutations >>

-----------------------------------------------------------------------------
(* Bounds of the model. *)

MaxComponents == 2
MaxRoutes == 3
MaxMiddlewares == 3
MaxRouterRoutes == 2
MaxUses == 1
MaxNavigations == 2
MaxTicks == 9
MaxTimers == 3

-----------------------------------------------------------------------------
(* Strings. *)

Lower == {"a","b","c","d","e","f","g","h","i","j","k","l","m",
          "n","o","p","q","r","s","t","u","v","w","x","y","z"}
Upper == {"A","B","C","D","E","F","G","H","I","J","K","L","M",
          "N","O","P","Q","R","S","T","U","V","W","X","Y","Z"}
Digit == {"0","1","2","3","4","5","6","7","8","9"}

\* The character class [a-zA-Z0-9_] of validateSegmentName.
NameChar == Lower \cup Upper \cup Digit \cup {"_"}

\* The segment type tags, as the strings the code compares and uses as keys.
STATIC == <<"s","t","a","t","i","c">>
DYNAMIC == <<"d","y","n","a","m","i","c">>
CATCHALL == <<"c","a","t","c","h","A","l","l">>
OPTIONAL == <<"o","p","t","i","o","n","a","l">>

\* The value of an absent optional field or of a lookup that found nothing.
undefined == [undefined |-> TRUE]

RECURSIVE SplitFrom(_, _, _)
\* s.split('/') from position i on, cur being the component collected so far.
SplitFrom(s, i, cur) ==
    IF i > Len(s) THEN << cur >>
    ELSE IF s[i] = "/" THEN << cur >> \o SplitFrom(s, i + 1, << >>)
    ELSE SplitFrom(s, i + 1, Append(cur, s[i]))

\* s.split('/').filter(Boolean): the non-empty components.
SplitPath(s) == SelectSeq(SplitFrom(s, 1, << >>), LAMBDA c : c # << >>)

RECURSIVE Join(_)
\* segments.join('/')
Join(segments) ==
    IF segments = << >> THEN << >>
    ELSE IF Len(segments) = 1 THEN segments[1]
    ELSE segments[1] \o << "/" >> \o Join(Tail(segments))

\* What a regular expression that did not match yields (match() returns null);
\* a capture group of the three expressions is never empty.
NoMatch == << >>

\* [^\]]+ : one or more characters, none of them a closing bracket.
NoClose(s) == Len(s) >= 1 /\ \A i \in 1..Len(s) : s[i] # "]"

Repeat(c, n) == [i \in 1..n |-> c]

-----------------------------------------------------------------------------
(* The segment parser. *)

\* DYNAMIC_SEGMENT_REGEX = /^\[([^\]]+)\]$/ : the capture group, or NoMatch.
DynamicRegexMatch(segment) ==
    IF /\ Len(segment) >= 3
       /\ segment[1] = "["
       /\ segment[Len(segment)] = "]"
       /\ NoClose(SubSeq(segment, 2, Len(segment) - 1))
    THEN SubSeq(segment, 2, Len(segment) - 1)
    ELSE NoMatch

\* CATCH_ALL_SEGMENT_REGEX = /^\[\[([^\]]+)\]\]$/ : the capture group, or NoMatch.
CatchAllRegexMatch(segment) ==
    IF /\ Len(segment) >= 5
       /\ segment[1] = "[" /\ segment[2] = "["
       /\ segment[Len(segment) - 1] = "]" /\ segment[Len(segment)] = "]"
       /\ NoClose(SubSeq(segment, 3, Len(segment) - 2))
    THEN SubSeq(segment, 3, Len(segment) - 2)
    ELSE NoMatch

\* The ways /^\[\[?([^\]]+)\]?\]$/ can match: p opening and q closing brackets
\* taken by the two optional items.
OptionalShapes(segment) ==
    { pq \in {0, 1} \X {0, 1} :
        LET p == pq[1]
            q == pq[2]
            n == Len(segment) - p - q - 2
        IN /\ n >= 1
           /\ segment = << "[" >> \o Repeat("[", p)
                          \o SubSeq(segment, p + 2, p + 1 + n)
                          \o Repeat("]", q) \o << "]" >>
           /\ NoClose(SubSeq(segment, p + 2, p + 1 + n)) }

\* OPTIONAL_SEGMENT_REGEX = /^\[\[?([^\]]+)\]?\]$/ : the capture group of the
\* match a backtracking engine finds first (each optional item is greedy, the
\* opening one is decided first), or NoMatch.
OptionalRegexMatch(segment) ==
    LET shapes == OptionalShapes(segment)
        best == CHOOSE pq \in shapes :
                    \A other \in shapes :
                        \/ pq[1] > other[1]
                        \/ pq[1] = other[1] /\ pq[2] >= other[2]
    IN IF shapes = {} THEN NoMatch
       ELSE SubSeq(segment, best[1] + 2, Len(segment) - best[2] - 1)

\* validateSegmentName: TRUE when it returns, FALSE when it throws.
validateSegmentName(name) ==
    ~ (name = << >> \/ \E i \in 1..Len(name) : name[i] \notin NameChar)

\* The value standing for the error validateSegmentName throws.
InvalidSegmentName == [error |-> "INVALID_CONFIG"]

createStaticSegment(value) == [type |-> STATIC, value |-> value]

createDynamicSegment(name) ==
    IF validateSegmentName(name) THEN [type |-> DYNAMIC, name |-> name]
    ELSE InvalidSegmentName

createCatchAllSegment(name) ==
    IF validateSegmentName(name) THEN [type |-> CATCHALL, name |-> name]
    ELSE InvalidSegmentName

createOptionalSegment(name) ==
    IF validateSegmentName(name) THEN [type |-> OPTIONAL, name |-> name]
    ELSE InvalidSegmentName

\* parseSegment: the dynamic expression is tried first, then the catch-all
\* one, then the optional one.
parseSegment(segment) ==
    IF DynamicRegexMatch(segment) # NoMatch
    THEN createDynamicSegment(DynamicRegexMatch(segment))
    ELSE IF CatchAllRegexMatch(segment) # NoMatch
    THEN createCatchAllSegment(CatchAllRegexMatch(segment))
    ELSE IF OptionalRegexMatch(segment) # NoMatch
    THEN createOptionalSegment(OptionalRegexMatch(segment))
    ELSE createStaticSegment(segment)

\* parseRoute: the segments in component order, or the error of the first
\* component whose parse throws.
parseRoute(path) ==
    LET segments == SplitPath(path)
        parsed == [i \in 1..Len(segments) |-> parseSegment(segments[i])]
    IN IF \E i \in 1..Len(parsed) : parsed[i] = InvalidSegmentName
       THEN InvalidSegmentName
       ELSE [segments |-> parsed]

-----------------------------------------------------------------------------
(* The route tree and Router.addRoute. *)

\* A route configuration: its path, whether it has a page, the names of its
\* own middleware.
RouteConfig(path, page, middleware) ==
    [path |-> path, page |-> page, middleware |-> middleware]

\* A freshly created RouteNode (addRoute, the `if (!child)` branch).
NewNode(segment) ==
    [segment |-> segment, config |-> undefined, children |-> << >>,
     middleware |-> << >>]

\* Router.constructor: the tree holds the root node only.
EmptyTree == [p \in { << >> } |-> NewNode(createStaticSegment(<< >>))]

\* The key under which addRoute files a segment in its parent's children.
SegmentKey(segment) ==
    IF segment.type = STATIC THEN segment.value ELSE segment.type

\* The tree after the loop of addRoute has walked `segments` from the root,
\* creating the nodes that are missing.
WalkCreate(tree, segments) ==
    LET keys == [i \in 1..Len(segments) |-> SegmentKey(segments[i])]
        prefix(i) == SubSeq(keys, 1, i)
        paths == DOMAIN tree \cup { prefix(i) : i \in 1..Len(keys) }
        base(p) == IF p \in DOMAIN tree THEN tree[p]
                   ELSE NewNode(segments[Len(p)])
        grows(p) == /\ Len(p) < Len(keys)
                    /\ p = prefix(Len(p))
                    /\ prefix(Len(p) + 1) \notin DOMAIN tree
    IN [p \in paths |->
          IF grows(p)
          THEN [base(p) EXCEPT !.children = Append(@, keys[Len(p) + 1])]
          ELSE base(p)]

\* config.group?.middleware, spread into push: nothing when the config has no
\* group.
GroupMiddleware(config) ==
    IF "group" \in DOMAIN config /\ "middleware" \in DOMAIN config.group
    THEN config.group.middleware
    ELSE << >>

\* Router.group(options, routes): each route with the group attached, the
\* group's middleware ahead of its own, the group's layout if it has one.
\* options?.middleware || [] and options?.layout of Router.group.
OptionsMiddleware(options) ==
    IF "middleware" \in DOMAIN options THEN options.middleware ELSE << >>

OptionsLayout(options) ==
    IF "layout" \in DOMAIN options THEN options.layout ELSE undefined

\* route.layout
RouteLayout(route) ==
    IF "layout" \in DOMAIN route THEN route.layout ELSE undefined

\* group with each route's own middleware ahead of the group's.
groupOwnFirst(options, routes) ==
    [i \in 1..Len(routes) |->
        [path |-> routes[i].path,
         page |-> routes[i].page,
         group |-> options,
         middleware |-> routes[i].middleware \o OptionsMiddleware(options),
         layout |-> IF OptionsLayout(options) # undefined
                    THEN OptionsLayout(options)
                    ELSE RouteLayout(routes[i])]]

group(options, routes) ==
    [i \in 1..Len(routes) |->
        [path |-> routes[i].path,
         page |-> routes[i].page,
         group |-> options,
         middleware |-> OptionsMiddleware(options) \o routes[i].middleware,
         layout |-> IF OptionsLayout(options) # undefined
                    THEN OptionsLayout(options)
                    ELSE RouteLayout(routes[i])]]

\* addRoute building the tree anew from the root for the route it is given.
addRouteAnew(tree, config) ==
    LET segments == parseRoute(config.path).segments
        keys == [i \in 1..Len(segments) |-> SegmentKey(segments[i])]
        walked == WalkCreate(EmptyTree, segments)
    IN [walked EXCEPT
          ![keys] = [@ EXCEPT
                       !.config = config,
                       !.middleware = @ \o config.middleware
                                        \o GroupMiddleware(config)]]

\* Router.addRoute on a path that parses: the tree after the call.
addRoute(tree, config) ==
    LET segments == parseRoute(config.path).segments
        keys == [i \in 1..Len(segments) |-> SegmentKey(segments[i])]
        walked == WalkCreate(tree, segments)
    IN [walked EXCEPT
          ![keys] = [@ EXCEPT
                       !.config = config,
                       !.middleware = @ \o config.middleware
                                        \o GroupMiddleware(config)]]

-----------------------------------------------------------------------------
(* The matcher. *)

\* { ...params, [name]: value }
WithParam(params, name, value) ==
    [k \in DOMAIN params \cup { name } |->
        IF k = name THEN value ELSE params[k]]

\* The object literal {} that matchRoute starts from.
NoParams == [k \in {} |-> << >>]

RECURSIVE matchSegments(_, _, _, _, _)
RECURSIVE StaticLoop(_, _, _, _, _, _)
RECURSIVE DynamicLoop(_, _, _, _, _, _)
RECURSIVE CatchAllLoop(_, _, _, _, _, _)

\* The first for-loop of matchSegments, from the i-th child on: what it
\* pushes to `matches`, in order.
StaticLoop(tree, segments, at, params, score, i) ==
    IF i > Len(tree[at].children) THEN << >>
    ELSE LET child == Append(at, tree[at].children[i])
             seg == tree[child].segment
         IN (IF seg.type = STATIC /\ seg.value = Head(segments)
             THEN matchSegments(tree, Tail(segments), child, params, score + 100)
             ELSE << >>)
            \o StaticLoop(tree, segments, at, params, score, i + 1)

\* DynamicLoop binding what the catch-all loop binds: the remaining
\* components joined, instead of the one component consumed.
DynamicLoopBindsRest(tree, segments, at, params, score, i) ==
    IF i > Len(tree[at].children) THEN << >>
    ELSE LET child == Append(at, tree[at].children[i])
             seg == tree[child].segment
         IN (IF seg.type = DYNAMIC
             THEN matchSegments(tree, Tail(segments), child,
                                WithParam(params, seg.name, Join(segments)),
                                score + 50)
             ELSE << >>)
            \o DynamicLoop(tree, segments, at, params, score, i + 1)

\* The second for-loop of matchSegments.
DynamicLoop(tree, segments, at, params, score, i) ==
    IF i > Len(tree[at].children) THEN << >>
    ELSE LET child == Append(at, tree[at].children[i])
             seg == tree[child].segment
         IN (IF seg.type = DYNAMIC
             THEN matchSegments(tree, Tail(segments), child,
                                WithParam(params, seg.name, Head(segments)),
                                score + 50)
             ELSE << >>)
            \o DynamicLoop(tree, segments, at, params, score, i + 1)

\* The third for-loop of matchSegments.
CatchAllLoop(tree, segments, at, params, score, i) ==
    IF i > Len(tree[at].children) THEN << >>
    ELSE LET child == Append(at, tree[at].children[i])
             seg == tree[child].segment
         IN (IF seg.type = CATCHALL
             THEN matchSegments(tree, << >>, child,
                                WithParam(params, seg.name, Join(segments)),
                                score + 10)
             ELSE << >>)
            \o CatchAllLoop(tree, segments, at, params, score, i + 1)

\* matchSegments from the node at key path `at`: the matches it pushes, in
\* the order it pushes them.
matchSegments(tree, segments, at, params, score) ==
    IF segments = << >>
    THEN IF tree[at].config # undefined
         THEN << [route |-> tree[at].config, params |-> params, score |-> score] >>
         ELSE << >>
    ELSE StaticLoop(tree, segments, at, params, score, 1)
         \o DynamicLoop(tree, segments, at, params, score, 1)
         \o CatchAllLoop(tree, segments, at, params, score, 1)

RECURSIVE InsertBeforeEqual(_, _)
\* InsertByScore with the comparison of a sort that is not stable: m goes
\* before the elements of its own score.
InsertBeforeEqual(sorted, m) ==
    IF sorted = << >> THEN << m >>
    ELSE IF Head(sorted).score > m.score
         THEN << Head(sorted) >> \o InsertBeforeEqual(Tail(sorted), m)
         ELSE << m >> \o sorted

RECURSIVE InsertByScore(_, _)
\* One step of a stable sort by descending score: m goes after every element
\* whose score is not smaller.
InsertByScore(sorted, m) ==
    IF sorted = << >> THEN << m >>
    ELSE IF Head(sorted).score >= m.score
         THEN << Head(sorted) >> \o InsertByScore(Tail(sorted), m)
         ELSE << m >> \o sorted

RECURSIVE SortByScore(_)
\* matches.sort((a, b) => b.score - a.score): Array.prototype.sort is stable.
SortByScore(matches) ==
    IF matches = << >> THEN << >>
    ELSE InsertByScore(SortByScore(SubSeq(matches, 1, Len(matches) - 1)),
                       matches[Len(matches)])

\* matchRoute: null (undefined here) or the first match of the sorted list.
matchRoute(pathname, tree) ==
    LET matches == matchSegments(tree, SplitPath(pathname), << >>, NoParams, 0)
    IN IF Len(matches) = 0 THEN undefined
       ELSE SortByScore(matches)[1]

-----------------------------------------------------------------------------
(* Errors. *)

\* The keys of the ErrorCodes table; a key it lacks reads as undefined.
KnownErrorCodes == { "INVALID_CONFIG", "DATA_FETCH_FAILED", "VALIDATION_FAILED",
                     "AUTH_REQUIRED", "OPTIMIZATION_FAILED" }

ErrorCodes(key) == IF key \in KnownErrorCodes THEN key ELSE "undefined"

\* createError: an Error with the message, the code and the details given.
createError(code, message, details) ==
    [code |-> code, message |-> message, details |-> details]

\* The error a handler of this model throws: its message names the handler.
HandlerError(name) == [message |-> << "boom in", name >>]

\* The message `Middleware '${middleware.name}' failed`.
FailedMessage(name) == << "Middleware failed", name >>

\* The error the catch block of `next` throws for the middleware it called:
\* details is error.message of what it caught.
MiddlewareError(name, caught) ==
    createError(ErrorCodes("MIDDLEWARE_ERROR"), FailedMessage(name), caught.message)

-----------------------------------------------------------------------------
(* The middleware chain. *)

\* A middleware: its name, its phase tag ("unset" when it has none) and what
\* its handler does with next().
Middleware(name, phase, does) == [name |-> name, phase |-> phase, does |-> does]

\* add putting the middleware at the front of the list.
addAhead(list, middleware) == << middleware >> \o list

\* MiddlewareChain.add
add(list, middleware) == Append(list, middleware)

\* MiddlewareChain.addBefore
addBefore(list, middleware) == << [middleware EXCEPT !.phase = "before"] >> \o list

\* MiddlewareChain.addAfter
addAfter(list, middleware) == Append(list, [middleware EXCEPT !.phase = "after"])

\* BeforeMiddlewares keeping only the handlers tagged 'before'.
BeforeTaggedOnly(list) == SelectSeq(list, LAMBDA m : m.phase = "before")

\* this.middlewares.filter(m => m.phase !== 'after')
BeforeMiddlewares(list) == SelectSeq(list, LAMBDA m : m.phase # "after")

\* this.middlewares.filter(m => m.phase === 'after')
AfterMiddlewares(list) == SelectSeq(list, LAMBDA m : m.phase = "after")

\* The names of a list of middleware, in order.
NamesOf(list) == [i \in 1..Len(list) |-> list[i].name]

\* The activation of executeChain itself: it awaits next() and returns.
ChainFrame == Middleware("executeChain", "unset", "awaitNext")

Frame(middleware, pc) == [mw |-> middleware, pc |-> pc]

Top == stack[Len(stack)]

\* The stack with its innermost activation at program point pc.
TopAt(pc) == [stack EXCEPT ![Len(stack)] = [@ EXCEPT !.pc = pc]]

\* The stack after its innermost activation ended, its caller resuming at pc.
PopTo(pc) ==
    LET rest == SubSeq(stack, 1, Len(stack) - 1)
    IN [rest EXCEPT ![Len(rest)] = [@ EXCEPT !.pc = pc]]

\* The list the running executeChain was called with.
CurrentList == IF chainState = "after" THEN chainList.after ELSE chainList.before

-----------------------------------------------------------------------------
(* Inputs. *)

\* Parameter names and name-like texts the patterns are built from.
NameTexts == { << >>, << "i", "d" >>, << "n", " ", "m" >> }

\* The components handed to the parser: up to two opening brackets, an
\* optional "...", a name text, up to two closing brackets.
Components ==
    { Repeat("[", o) \o (IF dots THEN << ".", ".", "." >> ELSE << >>)
                     \o name \o Repeat("]", c) :
        o \in 0..2, dots \in BOOLEAN, name \in NameTexts, c \in 0..2 }

RECURSIVE PatternsOf(_)
\* The patterns of n components, each preceded by a slash.
PatternsOf(n) ==
    IF n = 0 THEN { << >> }
    ELSE { p \o << "/" >> \o c : p \in PatternsOf(n - 1), c \in Components }

\* The route paths handed to addRoute.
RoutePatterns ==
    { << "/", "u", "/", "[", "i", "]" >>,
      << "/", "u", "/", "m" >>,
      << "/" >> \o DYNAMIC,
      << "/", "[", "i", "]" >>,
      << "/", "[", "i", "]", "/", "m" >>,
      << "/", "[", "i", "]", "/", "[", "j", "]" >>,
      << "/", "a", "/", "[", "n", "]", "/", "b" >>,
      << "/", "a", "/", "[", "i", "d", "]", "/", "b" >>,
      << "/", "a", "/", "[", "_", "1", "]", "/", "b" >>,
      << "/", "f", "/", "[", "[", "r", "]", "]" >>,
      << "/", "f", "/", "[", "[", ".", ".", ".", "r", "]", "]" >>,
      << "/", "u", "/", "[", "n", " ", "m", "]" >>,
      << "/", "u", "/", "[", "]" >> }

\* Whether the route registered under a path has a page: one of the paths is
\* also registered without.
Pages(path) == IF path = << "/", "u", "/", "m" >> THEN BOOLEAN ELSE { TRUE }

\* The pathnames handed to matchRoute.
MatchPaths ==
    { << "/", "u", "/", "m" >>,
      << "/", "u", "/", "7" >>,
      << "/" >> \o DYNAMIC,
      << "/", "4", "2" >>,
      << "/", "a", "/", "4", "2", "/", "b" >>,
      << "/", "a", "/", "b", "/", "b" >>,
      << "/", "f" >>,
      << "/", "f", "/", "a" >>,
      << "/", "f", "/", "a", "/", "b", "/", "c" >>,
      << "/", "x", "/", "y", "/", "z" >>,
      << "/" >> }

-----------------------------------------------------------------------------
(* Actions of the parser. *)

\* parseRoute(path), once.
Parse ==
    /\ parseInput = undefined
    /\ \E n \in 1..MaxComponents : \E path \in PatternsOf(n) :
          /\ parseInput' = [path |-> path]
          /\ parseResult' = parseRoute(path)
    /\ UNCHANGED << routeVars, chainVars, navVars >>
    /\ UNCHANGED << cacheVars, groupVars, runVars, mutateVars >>

-----------------------------------------------------------------------------
(* Actions of the router's tree. *)

\* Router.addRoute(config): the parse may throw, and then nothing was touched.
AddRoute ==
    /\ addCalls < MaxRoutes
    /\ \E path \in RoutePatterns : \E page \in Pages(path) :
          LET config == RouteConfig(path, page, << >>)
          IN IF parseRoute(path) = InvalidSegmentName
             THEN /\ addOutcome' = [config |-> config, threw |-> InvalidSegmentName]
                  /\ routeTree' = routeTree
             ELSE /\ addOutcome' = [config |-> config, threw |-> undefined]
                  /\ routeTree' = addRoute(routeTree, config)
    /\ addCalls' = addCalls + 1
    /\ matchPath' = undefined
    /\ matchResult' = undefined
    /\ UNCHANGED << parseVars, chainVars, navVars >>
    /\ UNCHANGED << cacheVars, groupVars, runVars, mutateVars >>

\* matchRoute(pathname, this.routeTree).
MatchRoute ==
    /\ matchPath = undefined
    /\ \E pathname \in MatchPaths :
          /\ matchPath' = [pathname |-> pathname]
          /\ matchResult' = matchRoute(pathname, routeTree)
    /\ UNCHANGED << routeTree, addCalls, addOutcome, parseVars, chainVars, navVars >>
    /\ UNCHANGED << cacheVars, groupVars, runVars, mutateVars >>

-----------------------------------------------------------------------------
(* Actions of the middleware chain. *)

\* The names handlers are registered under, in registration order.
HandlerNames == << "A", "B", "C", "D", "E" >>

\* The phase tag a middleware is handed over with.
Phases == { "unset", "before", "after" }

\* What a handler does: awaits next() and returns; returns without calling
\* next(); throws without calling next(); awaits next() and then throws.
Behaviours == { "awaitNext", "noNext", "throwBefore", "throwAfter" }

\* The middleware registered next.
NewMiddlewares ==
    { Middleware(HandlerNames[Len(regOrder) + 1], phase, does) :
        phase \in Phases, does \in Behaviours }

CanRegister == chainState = "idle" /\ Len(regOrder) < MaxMiddlewares

\* chain.add(middleware)
Add ==
    /\ CanRegister
    /\ \E m \in NewMiddlewares :
          /\ middlewares' = add(middlewares, m)
          /\ regOrder' = Append(regOrder, m.name)
    /\ UNCHANGED << chainState, chainList, index, stack, invoked, chainError,
                    parseVars, routeVars, navVars >>
    /\ UNCHANGED << cacheVars, groupVars, runVars, mutateVars >>

\* chain.addBefore(middleware)
AddBefore ==
    /\ CanRegister
    /\ \E m \in NewMiddlewares :
          /\ middlewares' = addBefore(middlewares, m)
          /\ regOrder' = Append(regOrder, m.name)
    /\ UNCHANGED << chainState, chainList, index, stack, invoked, chainError,
                    parseVars, routeVars, navVars >>
    /\ UNCHANGED << cacheVars, groupVars, runVars, mutateVars >>

\* chain.addAfter(middleware)
AddAfter ==
    /\ CanRegister
    /\ \E m \in NewMiddlewares :
          /\ middlewares' = addAfter(middlewares, m)
          /\ regOrder' = Append(regOrder, m.name)
    /\ UNCHANGED << chainState, chainList, index, stack, invoked, chainError,
                    parseVars, routeVars, navVars >>
    /\ UNCHANGED << cacheVars, groupVars, runVars, mutateVars >>

\* chain.execute(context) starts: both lists are filtered, executeChain is
\* entered with the before list.
ExecuteStarts ==
    /\ chainState' = "before"
    /\ chainList' = [before |-> BeforeMiddlewares(middlewares),
                     after |-> AfterMiddlewares(middlewares)]
    /\ index' = 0
    /\ stack' = << Frame(ChainFrame, "body") >>

\* chain.execute(context), called on the chain directly.
Execute ==
    /\ chainState = "idle"
    /\ ExecuteStarts
    /\ UNCHANGED << middlewares, regOrder, invoked, chainError,
                    parseVars, routeVars, navVars >>
    /\ UNCHANGED << cacheVars, groupVars, runVars, mutateVars >>

\* next() is called, by executeChain or by the handler running innermost:
\* past the end of the list it returns at once, else it calls the handler at
\* `index` and moves `index` on.
CallNext ==
    /\ stack # << >>
    /\ Top.pc = "body"
    /\ Top.mw.does \in { "awaitNext", "throwAfter" }
    /\ IF index >= Len(CurrentList)
       THEN /\ stack' = TopAt("resumed")
            /\ UNCHANGED << index, invoked >>
       ELSE /\ stack' = Append(TopAt("awaiting"),
                               Frame(CurrentList[index + 1], "body"))
            /\ index' = index + 1
            /\ invoked' = Append(invoked, CurrentList[index + 1].name)
    /\ UNCHANGED << middlewares, regOrder, chainState, chainList, chainError,
                    parseVars, routeVars, navVars >>
    /\ UNCHANGED << cacheVars, groupVars, runVars, mutateVars >>

\* A handler returns; the next() that called it resolves.
Return ==
    /\ Len(stack) >= 2
    /\ \/ Top.pc = "body" /\ Top.mw.does = "noNext"
       \/ Top.pc = "resumed" /\ Top.mw.does = "awaitNext"
    /\ stack' = PopTo("resumed")
    /\ UNCHANGED << middlewares, regOrder, chainState, chainList, index,
                    invoked, chainError, parseVars, routeVars, navVars >>
    /\ UNCHANGED << cacheVars, groupVars, runVars, mutateVars >>

\* A handler throws; the next() that called it catches the error and throws
\* the error it creates for that middleware.
Throw ==
    /\ Len(stack) >= 2
    /\ \/ Top.pc = "body" /\ Top.mw.does = "throwBefore"
       \/ Top.pc = "resumed" /\ Top.mw.does = "throwAfter"
    /\ chainError' = MiddlewareError(Top.mw.name, HandlerError(Top.mw.name))
    /\ stack' = PopTo("rejected")
    /\ UNCHANGED << middlewares, regOrder, chainState, chainList, index,
                    invoked, parseVars, routeVars, navVars >>
    /\ UNCHANGED << cacheVars, groupVars, runVars, mutateVars >>

\* The next() a handler awaited rejected: the handler rejects with that
\* error, and the next() that called the handler catches it in turn.
Propagate ==
    /\ Len(stack) >= 2
    /\ Top.pc = "rejected"
    /\ chainError' = MiddlewareError(Top.mw.name, chainError)
    /\ stack' = PopTo("rejected")
    /\ UNCHANGED << middlewares, regOrder, chainState, chainList, index,
                    invoked, parseVars, routeVars, navVars >>
    /\ UNCHANGED << cacheVars, groupVars, runVars, mutateVars >>

\* executeChain returns: after the before list execute enters it again with
\* the after list, after the after list execute resolves.
PhaseDone ==
    /\ Len(stack) = 1
    /\ Top.pc = "resumed"
    /\ IF chainState = "before"
       THEN /\ chainState' = "after"
            /\ index' = 0
            /\ stack' = << Frame(ChainFrame, "body") >>
       ELSE /\ chainState' = "resolved"
            /\ stack' = << >>
            /\ UNCHANGED index
    /\ UNCHANGED << middlewares, regOrder, chainList, invoked, chainError,
                    parseVars, routeVars, navVars >>
    /\ UNCHANGED << cacheVars, groupVars, runVars, mutateVars >>

\* executeChain rejects, and execute with it.
Reject ==
    /\ Len(stack) = 1
    /\ Top.pc = "rejected"
    /\ chainState' = "rejected"
    /\ stack' = << >>
    /\ UNCHANGED << middlewares, regOrder, chainList, index, invoked,
                    chainError, parseVars, routeVars, navVars >>
    /\ UNCHANGED << cacheVars, groupVars, runVars, mutateVars >>

-----------------------------------------------------------------------------
(* Actions of the Router. *)

\* builtInMiddlewares: each awaits next() (errorBoundary rethrows what it
\* catches) and carries no phase tag.
builtInMiddlewares ==
    [errorBoundary |-> Middleware("errorBoundary", "unset", "awaitNext"),
     timing |-> Middleware("timing", "unset", "awaitNext"),
     logger |-> Middleware("logger", "unset", "awaitNext")]

\* Router.constructor: the global chain after the three add calls.
ConstructedChain ==
    add(add(add(<< >>, builtInMiddlewares.errorBoundary),
            builtInMiddlewares.timing),
        builtInMiddlewares.logger)

\* Handlers attached to routes: R to a route itself, G to a group, S to a
\* route of that group, T to a route whose handler is of the after phase.
RouteHandler(name, phase) == Middleware(name, phase, "awaitNext")

\* The route configurations handed to Router.addRoute: /u/m with its own
\* middleware, /u/m without a page, /u/[i] as Router.group returns it, /f/[[r]]
\* with an after-phase handler.
RouterConfigs ==
    { RouteConfig(<< "/", "u", "/", "m" >>, TRUE, << RouteHandler("R", "unset") >>),
      RouteConfig(<< "/", "u", "/", "m" >>, FALSE, << >>),
      group([middleware |-> << RouteHandler("G", "before") >>, layout |-> undefined],
            << RouteConfig(<< "/", "u", "/", "[", "i", "]" >>, TRUE,
                           << RouteHandler("S", "unset") >>) >>)[1],
      RouteConfig(<< "/", "f", "/", "[", "[", "r", "]", "]" >>, TRUE,
                  << RouteHandler("T", "after") >>) }

\* The pathnames handed to Router.execute.
RouterPaths ==
    { << "/", "u", "/", "m" >>,
      << "/", "u", "/", "7" >>,
      << "/", "f", "/", "a", "/", "b" >>,
      << "/", "x", "/", "y", "/", "z" >> }

\* The states in which a Router.execute call has ended.
NavTerminal == { "NotFound", "NoPage", "Failed", "Completed" }

\* No Router.execute call is under way.
RouterAtRest == navState \in { "Idle" } \cup NavTerminal

\* router.addRoute(config), the paths of RouterConfigs all parse.
RouterAddRoute ==
    /\ RouterAtRest
    /\ addCalls < MaxRouterRoutes
    /\ \E config \in RouterConfigs :
          routeTree' = addRoute(routeTree, config)
    /\ addCalls' = addCalls + 1
    /\ UNCHANGED << addOutcome, matchPath, matchResult, parseVars, chainVars,
                    navVars >>
    /\ groupCall' = undefined
    /\ UNCHANGED << cacheVars, runVars, mutateVars >>

\* router.use(middleware): added to the global chain.
Use ==
    /\ RouterAtRest
    /\ Len(middlewares) < Len(ConstructedChain) + MaxUses
    /\ \E phase \in Phases : \E does \in Behaviours :
          LET m == Middleware(
                       HandlerNames[Len(middlewares) - Len(ConstructedChain) + 1],
                       phase, does)
          IN /\ middlewares' = add(middlewares, m)
             /\ regOrder' = Append(regOrder, m.name)
    /\ UNCHANGED << chainState, chainList, index, stack, invoked, chainError,
                    parseVars, routeVars, navVars >>
    /\ groupCall' = undefined
    /\ UNCHANGED << cacheVars, runVars, mutateVars >>

\* The options handed to Router.group: none, middleware only, middleware and
\* a layout, a layout only.
GroupOptions ==
    { undefined,
      [middleware |-> << RouteHandler("G", "before") >>],
      [middleware |-> << RouteHandler("G", "before"), RouteHandler("H", "after") >>,
       layout |-> [name |-> "L"]],
      [layout |-> [name |-> "L"]] }

\* The route definitions handed to Router.group: one with its own middleware,
\* one with its own layout and no middleware of its own.
GroupRoutes ==
    { << RouteConfig(<< "/", "u", "/", "[", "i", "]" >>, TRUE,
                     << RouteHandler("S", "unset") >>) >>,
      << RouteConfig(<< "/", "u", "/", "[", "i", "]" >>, TRUE,
                     << RouteHandler("S", "unset") >>),
         [path |-> << "/", "u", "/", "m" >>, page |-> TRUE, middleware |-> << >>,
          layout |-> [name |-> "M"]] >> }

\* router.group(options, routes), called while the routes are being set up:
\* it builds the definitions it returns from copies and assigns to nothing,
\* so the caller's array is as it was.
Group ==
    /\ navState = "Idle"
    /\ \E options \in GroupOptions : \E routes \in GroupRoutes :
          groupCall' = [options |-> options, routes |-> routes,
                        returned |-> group(options, routes),
                        routesAfter |-> routes]
    /\ UNCHANGED << parseVars, routeVars, chainVars, navVars, cacheVars, runVars, mutateVars >>

\* router.execute(pathname) is called.
RouterExecute ==
    /\ RouterAtRest
    /\ navCalls < MaxNavigations
    /\ \E pathname \in RouterPaths : navPath' = [pathname |-> pathname]
    /\ navState' = "Matching"
    /\ navMatch' = undefined
    /\ navOutcome' = undefined
    /\ navCalls' = navCalls + 1
    /\ chainState' = "idle"
    /\ chainList' = [before |-> << >>, after |-> << >>]
    /\ index' = 0
    /\ stack' = << >>
    /\ invoked' = << >>
    /\ chainError' = undefined
    /\ UNCHANGED << middlewares, regOrder, parseVars, routeVars >>
    /\ groupCall' = undefined
    /\ UNCHANGED << cacheVars, runVars, mutateVars >>

\* The message `No route found for path: ${pathname}`.
NotFoundMessage(pathname) == << "No route found for path", pathname >>

\* const match = matchRoute(pathname, this.routeTree); if (!match) throw.
RouterMatch ==
    /\ navState = "Matching"
    /\ navMatch' = matchRoute(navPath.pathname, routeTree)
    /\ IF navMatch' = undefined
       THEN /\ navState' = "NotFound"
            /\ navOutcome' =
                 [threw |-> createError(ErrorCodes("ROUTE_NOT_FOUND"),
                                        NotFoundMessage(navPath.pathname),
                                        undefined)]
       ELSE /\ navState' = "Matched"
            /\ UNCHANGED navOutcome
    /\ UNCHANGED << navPath, navCalls, parseVars, routeVars, chainVars >>
    /\ UNCHANGED << cacheVars, groupVars, runVars, mutateVars >>

\* validateMatch: TRUE when it returns, FALSE when it throws.
validateMatch(match) == match.route.page

\* The error validateMatch throws.
RouteHasNoPage(match) ==
    createError(ErrorCodes("INVALID_CONFIG"),
                << "Route matched but no page component found" >>,
                << "Route", match.route.path >>)

\* The context Router.execute builds from the match and its argument.
RouteContext(match, pathname) ==
    [params |-> match.params, query |-> << "window.location.search" >>,
     pathname |-> pathname]

\* validateMatch(match), then the context is built and the global chain is
\* executed with it.
RouterValidate ==
    /\ navState = "Matched"
    /\ IF validateMatch(navMatch)
       THEN /\ navState' = "MiddlewareRunning"
            /\ ExecuteStarts
            /\ UNCHANGED navOutcome
       ELSE /\ navState' = "NoPage"
            /\ navOutcome' = [threw |-> RouteHasNoPage(navMatch)]
            /\ UNCHANGED << chainState, chainList, index, stack >>
    /\ UNCHANGED << navPath, navMatch, navCalls, middlewares, regOrder, invoked,
                    chainError, parseVars, routeVars >>
    /\ UNCHANGED << cacheVars, groupVars, runVars, mutateVars >>

\* The error the catch block of Router.execute throws.
RouteExecutionFailed(caught) ==
    createError(ErrorCodes("ROUTE_EXECUTION_FAILED"),
                << "Route execution failed" >>, caught.message)

\* The chain settled: Router.execute returns the context, or throws for what
\* it caught.
RouterSettle ==
    /\ navState = "MiddlewareRunning"
    /\ chainState \in { "resolved", "rejected" }
    /\ IF chainState = "resolved"
       THEN /\ navState' = "Completed"
            /\ navOutcome' = [returned |-> RouteContext(navMatch, navPath.pathname)]
       ELSE /\ navState' = "Failed"
            /\ navOutcome' = [threw |-> RouteExecutionFailed(chainError)]
    /\ UNCHANGED << navPath, navMatch, navCalls, parseVars, routeVars, chainVars >>
    /\ UNCHANGED << cacheVars, groupVars, runVars, mutateVars >>

-----------------------------------------------------------------------------
(* The data cache: MemoryCache. *)

\* The ttl of the 'force-cache' strategy; GreaterThan compares with it as
\* JavaScript compares with Infinity.
Infinity == -1

\* a > b, b possibly Infinity.
GreaterThan(a, b) == IF b = Infinity THEN FALSE ELSE a > b

\* age > ttl * 0.75, computed in quarters so that no fraction arises.
ExceedsStaleTime(age, ttl) == IF ttl = Infinity THEN FALSE ELSE 4 * age > 3 * ttl

\* The delay of the setTimeout in queueRevalidation, in milliseconds.
DebounceDelay == 100

\* getTTLFromStrategy
getTTLFromStrategy(strategy) ==
    IF strategy = "no-cache" THEN 0
    ELSE IF strategy = "force-cache" THEN Infinity
    ELSE IF strategy = "stale-while-revalidate" THEN 60 * 1000
    ELSE IF strategy = "revalidate-on-mount" THEN 0
    ELSE 300 * 1000

\* createCacheEntry(data, config) at time t; a numeric strategy is the ttl.
createCacheEntry(data, config, t) ==
    [data |-> data,
     timestamp |-> t,
     ttl |-> IF "number" \in DOMAIN config.strategy THEN config.strategy.number
             ELSE getTTLFromStrategy(config.strategy.name),
     tags |-> config.tags,
     isStale |-> FALSE]

\* MemoryCache.isExpired at time t.
isExpired(entry, t) ==
    IF entry.ttl = 0 THEN FALSE
    ELSE GreaterThan(t - entry.timestamp, entry.ttl)

\* isStale with the threshold itself counted as stale.
isStaleFromThreshold(entry, t) ==
    IF entry.ttl = 0 THEN FALSE
    ELSE entry.ttl # Infinity /\ 4 * (t - entry.timestamp) >= 3 * entry.ttl

\* MemoryCache.isStale at time t.
isStale(entry, t) ==
    IF entry.ttl = 0 THEN FALSE
    ELSE ExceedsStaleTime(t - entry.timestamp, entry.ttl)

\* What MemoryCache.get returns for an entry map c at time t.
GetReturns(c, key, t) ==
    IF c[key] = undefined THEN undefined
    ELSE IF isExpired(c[key], t) THEN undefined
    ELSE IF isStale(c[key], t) THEN [c[key] EXCEPT !.isStale = TRUE]
    ELSE c[key]

\* The entry map after that get: an expired entry is deleted, a stale one is
\* flagged.
GetLeaves(c, key, t) == [c EXCEPT ![key] = GetReturns(c, key, t)]

\* Whether that get calls queueRevalidation(key).
GetQueues(c, key, t) ==
    /\ c[key] # undefined
    /\ ~ isExpired(c[key], t)
    /\ isStale(c[key], t)

\* A pending timer: the key whose enqueueing scheduled it and when it is due.
Timer(key, t) == [key |-> key, due |-> t + DebounceDelay]

\* The keys a revalidate(tags) call processes: every cached key, or those
\* whose entry carries one of the tags.
ToRevalidate(c, arg) ==
    { key \in DOMAIN c :
        /\ c[key] # undefined
        /\ arg = undefined
           \/ \E i \in 1..Len(arg.tags) : \E j \in 1..Len(c[key].tags) :
                 arg.tags[i] = c[key].tags[j] }

\* The guard of revalidate taken as never set.
NeverRevalidating(flag) == FALSE

\* if (this.isRevalidating) return;
AlreadyRevalidating(flag) == flag

\* The keys of the cache, the tags their entries are stored with, the cache
\* strategies of the entries and the arguments of revalidate.
Keys == { "k", "j" }

TagsOf(key) == IF key = "k" THEN << "t" >> ELSE << >>

Strategies == { [number |-> 400], [name |-> "no-cache"], [name |-> "force-cache"] }

TagArguments == { undefined, [tags |-> << "t" >>] }

\* The milliseconds by which the clock is seen to advance between operations.
TickSteps == { 50 }

\* The times at which the callers of this model store entries.
SetTimes == { 0, 50 }

\* new MemoryCache()
CacheConstructed ==
    /\ cache = [key \in Keys |-> undefined]
    /\ revalidationQueue = {}
    /\ isRevalidating = FALSE
    /\ timers = << >>
    /\ now = 0
    /\ inFlight = 0
    /\ processed = [key \in Keys |-> 0]
    /\ cacheOp = [op |-> "none"]
    /\ fetchCall = undefined
    /\ fetchOutcome = undefined

\* queueRevalidation(key): a key already pending changes nothing, another is
\* added and a timer is set.
queueRevalidation(key) ==
    IF key \in revalidationQueue
    THEN UNCHANGED << revalidationQueue, timers >>
    ELSE /\ revalidationQueue' = revalidationQueue \cup { key }
         /\ timers' = Append(timers, Timer(key, now))

\* cache.get(key) and what it does to the cache; the pending timers of the
\* model are at most MaxTimers.
GetCalled(key) ==
    /\ GetQueues(cache, key, now) /\ key \notin revalidationQueue
       => Len(timers) < MaxTimers
    /\ cache' = GetLeaves(cache, key, now)
    /\ IF GetQueues(cache, key, now)
       THEN queueRevalidation(key)
       ELSE UNCHANGED << revalidationQueue, timers >>
    /\ cacheOp' = [op |-> "get", key |-> key, was |-> cache[key],
                   result |-> GetReturns(cache, key, now),
                   pending |-> key \in revalidationQueue]

\* cache.get(key), called by a user of the cache.
Get ==
    /\ \E key \in Keys : GetCalled(key)
    /\ UNCHANGED << isRevalidating, now, inFlight, processed, fetchCall,
                    fetchOutcome, parseVars, routeVars, chainVars, navVars, groupVars, runVars, mutateVars >>

\* cache.set(key, entry), the entry made by createCacheEntry just before.
Set ==
    /\ now \in SetTimes
    /\ \E key \in Keys : \E strategy \in Strategies :
          LET entry == createCacheEntry("v", [strategy |-> strategy,
                                              tags |-> TagsOf(key)], now)
          IN /\ cache' = [cache EXCEPT ![key] = entry]
             /\ cacheOp' = [op |-> "set", key |-> key, entry |-> entry]
    /\ UNCHANGED << revalidationQueue, isRevalidating, timers, now, inFlight,
                    processed, fetchCall,
                    fetchOutcome, parseVars, routeVars, chainVars,
                    navVars, groupVars, runVars, mutateVars >>

\* cache.delete(key)
Delete ==
    /\ \E key \in Keys :
          /\ cache[key] # undefined
          /\ cache' = [cache EXCEPT ![key] = undefined]
          /\ cacheOp' = [op |-> "delete", key |-> key]
    /\ UNCHANGED << revalidationQueue, isRevalidating, timers, now, inFlight,
                    processed, fetchCall,
                    fetchOutcome, parseVars, routeVars,
                    chainVars, navVars, groupVars, runVars, mutateVars >>

\* cache.clear()
Clear ==
    /\ \E key \in Keys : cache[key] # undefined
    /\ cache' = [key \in Keys |-> undefined]
    /\ cacheOp' = [op |-> "clear"]
    /\ UNCHANGED << revalidationQueue, isRevalidating, timers, now, inFlight,
                    processed, fetchCall,
                    fetchOutcome, parseVars, routeVars,
                    chainVars, navVars, groupVars, runVars, mutateVars >>

\* revalidate(arg) up to its await: nothing when a pass is under way, else the
\* flag is raised and every entry selected is processed (its key leaves the
\* pending set) before Promise.all is awaited.
RevalidateCalled(arg) ==
    IF AlreadyRevalidating(isRevalidating)
    THEN UNCHANGED << revalidationQueue, isRevalidating, inFlight, processed >>
    ELSE /\ isRevalidating' = TRUE
         /\ inFlight' = inFlight + 1
         /\ revalidationQueue' = revalidationQueue \ ToRevalidate(cache, arg)
         /\ processed' =
              [key \in Keys |->
                 (IF inFlight = 0 THEN 0 ELSE processed[key])
                 + (IF key \in ToRevalidate(cache, arg) THEN 1 ELSE 0)]

\* cache.revalidate(tags), called by a user of the cache.
Revalidate ==
    /\ \E arg \in TagArguments :
          /\ RevalidateCalled(arg)
          /\ cacheOp' = [op |-> "revalidate", arg |-> arg,
                         busy |-> isRevalidating]
    /\ UNCHANGED << cache, timers, now, fetchCall,
                    fetchOutcome, parseVars, routeVars,
                    chainVars, navVars, groupVars, runVars, mutateVars >>

\* The await of a revalidate call ends: finally { this.isRevalidating = false }.
RevalidateDone ==
    /\ inFlight > 0
    /\ inFlight' = inFlight - 1
    /\ isRevalidating' = FALSE
    /\ cacheOp' = [op |-> "revalidated"]
    /\ UNCHANGED << cache, revalidationQueue, timers, now, processed, fetchCall,
                    fetchOutcome, parseVars, routeVars, chainVars, navVars, groupVars, runVars, mutateVars >>

\* The oldest timer fires, once due and once no continuation is waiting to
\* run: it calls revalidate() if a key is pending.
TimerFires ==
    /\ inFlight = 0
    /\ timers # << >>
    /\ Head(timers).due <= now
    /\ timers' = Tail(timers)
    /\ IF Cardinality(revalidationQueue) > 0
       THEN RevalidateCalled(undefined)
       ELSE UNCHANGED << revalidationQueue, isRevalidating, inFlight, processed >>
    /\ cacheOp' = [op |-> "timer", key |-> Head(timers).key,
                   ran |-> Cardinality(revalidationQueue) > 0]
    /\ UNCHANGED << cache, now, fetchCall,
                    fetchOutcome, parseVars, routeVars,
                    chainVars, navVars, groupVars, runVars, mutateVars >>

\* Time passes between two operations.
Tick ==
    /\ inFlight = 0
    /\ \E d \in TickSteps :
          /\ now + d <= MaxTicks * d
          /\ now' = now + d
    /\ cacheOp' = [op |-> "tick"]
    /\ UNCHANGED << cache, revalidationQueue, isRevalidating, timers, inFlight,
                    processed, fetchCall,
                    fetchOutcome, parseVars, routeVars,
                    chainVars, navVars, groupVars, runVars, mutateVars >>

-----------------------------------------------------------------------------
(* DataManager.fetch over its MemoryCache. *)

\* The options.cache a fetch call is handed: none, or a numeric strategy.
CacheOptions == { undefined, [strategy |-> [number |-> 400], tags |-> << >>] }

\* What the registered fetcher does when awaited: it resolves with data that
\* passes validate, resolves with data that does not, or rejects.
FetcherOutcomes == { "resolves", "invalid", "rejects" }

\* createResult(data)
createResult(data) == [data |-> data, error |-> "null"]

\* The error a rejecting fetcher rejects with.
FetcherError == [message |-> << "fetcher rejected" >>]

\* The error fetch throws, inside its try block, for data validate refuses.
DataValidationFailed(key) ==
    createError(ErrorCodes("DATA_VALIDATION_FAILED"),
                << "Data validation failed for key", key >>, undefined)

\* The error the catch block of fetch throws for what it caught.
DataFetchFailed(key, caught) ==
    createError(ErrorCodes("DATA_FETCH_FAILED"),
                << "Failed to fetch data for key", key >>, caught.message)

\* The entry fetch stores for fresh data: a numeric strategy is the ttl, any
\* other strategy means five minutes.
FetchedEntry(data, options, t) ==
    [data |-> data,
     timestamp |-> t,
     ttl |-> IF "number" \in DOMAIN options.strategy THEN options.strategy.number
             ELSE 300000,
     tags |-> options.tags,
     isStale |-> FALSE]

\* dataManager.fetch(key, options) up to its await: with caching, an entry the
\* cache returns and does not flag stale is the result; otherwise the fetcher
\* is called and awaited.
Fetch ==
    /\ fetchCall = undefined
    /\ \E key \in Keys : \E options \in CacheOptions :
          IF options # undefined
          THEN /\ GetCalled(key)
               /\ LET cached == GetReturns(cache, key, now)
                  IN IF cached # undefined /\ ~ cached.isStale
                     THEN /\ fetchOutcome' = [key |-> key, cached |-> cached,
                                              returned |-> createResult(cached.data)]
                          /\ UNCHANGED fetchCall
                     ELSE /\ fetchCall' = [key |-> key, options |-> options,
                                           cached |-> cached]
                          /\ fetchOutcome' = undefined
          ELSE /\ fetchCall' = [key |-> key, options |-> options,
                                cached |-> undefined]
               /\ fetchOutcome' = undefined
               /\ cacheOp' = [op |-> "fetch", key |-> key]
               /\ UNCHANGED << cache, revalidationQueue, timers >>
    /\ UNCHANGED << isRevalidating, now, inFlight, processed,
                    parseVars, routeVars, chainVars, navVars, groupVars, runVars, mutateVars >>

\* The awaited fetcher settles: fresh data is validated, cached when caching
\* is on, and returned; a rejection or invalid data makes fetch throw.
FetchSettles ==
    /\ fetchCall # undefined
    /\ \E outcome \in FetcherOutcomes :
          IF outcome = "resolves"
          THEN /\ fetchOutcome' = [key |-> fetchCall.key,
                                   cached |-> fetchCall.cached,
                                   returned |-> createResult("fresh")]
               /\ IF fetchCall.options # undefined
                  THEN LET entry == FetchedEntry("fresh", fetchCall.options, now)
                       IN /\ cache' = [cache EXCEPT ![fetchCall.key] = entry]
                          /\ cacheOp' = [op |-> "set", key |-> fetchCall.key,
                                         entry |-> entry]
                  ELSE /\ cacheOp' = [op |-> "fetched"]
                       /\ UNCHANGED cache
          ELSE /\ fetchOutcome' = [key |-> fetchCall.key,
                                   cached |-> fetchCall.cached,
                                   threw |-> DataFetchFailed(
                                       fetchCall.key,
                                       IF outcome = "invalid"
                                       THEN DataValidationFailed(fetchCall.key)
                                       ELSE FetcherError)]
               /\ cacheOp' = [op |-> "fetched"]
               /\ UNCHANGED cache
    /\ fetchCall' = undefined
    /\ UNCHANGED << revalidationQueue, isRevalidating, timers, now, inFlight,
                    processed, parseVars, routeVars, chainVars, navVars, groupVars, runVars, mutateVars >>

-----------------------------------------------------------------------------
(* Specifications. *)

Init ==
    /\ parseInput = undefined
    /\ parseResult = undefined
    /\ routeTree = EmptyTree
    /\ addCalls = 0
    /\ addOutcome = undefined
    /\ matchPath = undefined
    /\ matchResult = undefined
    /\ middlewares = << >>
    /\ regOrder = << >>
    /\ chainState = "idle"
    /\ chainList = [before |-> << >>, after |-> << >>]
    /\ index = 0
    /\ stack = << >>
    /\ invoked = << >>
    /\ chainError = undefined
    /\ navState = "Idle"
    /\ navPath = undefined
    /\ navMatch = undefined
    /\ navOutcome = undefined
    /\ navCalls = 0
    /\ CacheConstructed
    /\ groupCall = undefined
    /\ runs = << >>
    /\ mutations = << >>

NextParse == Parse

NextRoute == AddRoute \/ MatchRoute

SpecParse == Init /\ [][NextParse]_vars

SpecRoute == Init /\ [][NextRoute]_vars

NextChain ==
    \/ Add \/ AddBefore \/ AddAfter
    \/ Execute \/ CallNext \/ Return \/ Throw \/ Propagate
    \/ PhaseDone \/ Reject

SpecChain == Init /\ [][NextChain]_vars

\* The state after `new Router()`.
InitRouter ==
    /\ parseInput = undefined
    /\ parseResult = undefined
    /\ routeTree = EmptyTree
    /\ addCalls = 0
    /\ addOutcome = undefined
    /\ matchPath = undefined
    /\ matchResult = undefined
    /\ middlewares = ConstructedChain
    /\ regOrder = NamesOf(ConstructedChain)
    /\ chainState = "idle"
    /\ chainList = [before |-> << >>, after |-> << >>]
    /\ index = 0
    /\ stack = << >>
    /\ invoked = << >>
    /\ chainError = undefined
    /\ navState = "Idle"
    /\ navPath = undefined
    /\ navMatch = undefined
    /\ navOutcome = undefined
    /\ navCalls = 0
    /\ CacheConstructed
    /\ groupCall = undefined
    /\ runs = << >>
    /\ mutations = << >>

NextRouter ==
    \/ RouterAddRoute \/ Use
    \/ RouterExecute \/ RouterMatch \/ RouterValidate
    \/ CallNext \/ Return \/ Throw \/ Propagate \/ PhaseDone \/ Reject
    \/ RouterSettle

SpecRouter == InitRouter /\ [][NextRouter]_vars

\* The calls that prepare a router: registrations and Router.group.
NextGroup == RouterAddRoute \/ Use \/ Group

SpecGroup == InitRouter /\ [][NextGroup]_vars

\* Every operation of a Router: matchRoute and validateMatch run as steps of
\* Router.execute.
NextTree == NextRouter \/ Group

SpecTree == InitRouter /\ [][NextTree]_vars

(* A router serving several navigations at once.  Each Router.execute call
   is a run of its own: the context it built, the lists chain.execute
   filtered when it was called, and for each executeChain call the `index`
   of that call's closure.  A run is interleaved with the others wherever
   one of its asynchronous functions is entered or resumed.  Its histories
   are the handlers invoked, in order, and for each the activation whose
   next() invoked it. *)

\* How many Router.execute calls one behaviour makes.
MaxRuns == 2

\* What else a handler may do with next(): await it unless the context has
\* params and then never settle; await it twice; call it and drop the promise.
MoreBehaviours == { "hangsOnParams", "nextTwice", "dropsNext" }

\* The activation of a next() whose promise the caller dropped.
DroppedNext == Middleware("next", "unset", "awaitNext")

\* A task: a chain of activations that await one another, the outermost
\* first, and the error travelling up it.
Task(phase, frames) == [phase |-> phase, stack |-> frames, error |-> undefined]

\* The routes registered before the router serves: /u/m and /u/[i].
ServedTree ==
    addRoute(addRoute(EmptyTree,
                      RouteConfig(<< "/", "u", "/", "m" >>, TRUE, << >>)),
             RouteConfig(<< "/", "u", "/", "[", "i", "]" >>, TRUE, << >>))

\* The pathnames handed to Router.execute while it serves.
RunPaths ==
    { << "/", "u", "/", "m" >>,
      << "/", "u", "/", "7" >>,
      << "/", "x", "/", "y", "/", "z" >> }

\* The innermost activation of task t of run r.
TopOf(r, t) ==
    LET s == runs[r].tasks[t].stack IN s[Len(s)]

\* The list the executeChain call of task t runs through, and its `index`.
ListOf(r, t) == runs[r].lists[runs[r].tasks[t].phase]

\* IndexOf reading the `index` of the first run for every run.
IndexOfFirst(r, t) == runs[1].index[runs[r].tasks[t].phase]

IndexOf(r, t) == runs[r].index[runs[r].tasks[t].phase]

\* A stack with its innermost activation at program point pc.
StackAt(s, pc) == [s EXCEPT ![Len(s)] = Frame(s[Len(s)].mw, pc)]

\* A stack with its innermost activation gone and the one below it at pc.
StackPopTo(s, pc) == StackAt(SubSeq(s, 1, Len(s) - 1), pc)

\* The handler awaits the next() it calls in this context.
AwaitsNext(middleware, context) ==
    \/ middleware.does \in { "awaitNext", "throwAfter", "nextTwice" }
    \/ middleware.does = "hangsOnParams" /\ context.params = NoParams

\* Router.execute(pathname): matchRoute, validateMatch, the context, and
\* chain.execute up to the first call of next(), all before anything is
\* awaited.
Navigate ==
    /\ Len(runs) < MaxRuns
    /\ \E pathname \in RunPaths :
          LET match == matchRoute(pathname, routeTree)
              ended(state, error) ==
                  [pathname |-> pathname, match |-> match, context |-> undefined,
                   nav |-> state, outcome |-> [threw |-> error],
                   lists |-> [before |-> << >>, after |-> << >>],
                   index |-> [before |-> 0, after |-> 0],
                   tasks |-> << >>, invoked |-> << >>, calledBy |-> << >>]
          IN  runs' = Append(runs,
                 IF match = undefined
                 THEN ended("NotFound",
                            createError(ErrorCodes("ROUTE_NOT_FOUND"),
                                        NotFoundMessage(pathname), undefined))
                 ELSE IF ~ validateMatch(match)
                 THEN ended("NoPage", RouteHasNoPage(match))
                 ELSE [pathname |-> pathname, match |-> match,
                       context |-> RouteContext(match, pathname),
                       nav |-> "MiddlewareRunning", outcome |-> undefined,
                       lists |-> [before |-> BeforeMiddlewares(middlewares),
                                  after |-> AfterMiddlewares(middlewares)],
                       index |-> [before |-> 0, after |-> 0],
                       tasks |-> << Task("before", << Frame(ChainFrame, "body") >>) >>,
                       invoked |-> << >>, calledBy |-> << >>])
    /\ UNCHANGED << parseVars, routeVars, chainVars, navVars, cacheVars, groupVars,
                        mutateVars >>

\* next() is called and awaited: past the end of the list it returns at
\* once, else it calls the handler at `index` and moves `index` on.
NextCalled(r, t) ==
    LET run == runs[r]
        s == run.tasks[t].stack
        ph == run.tasks[t].phase
    IN  /\ s # << >>
        /\ TopOf(r, t).pc = "body"
        /\ AwaitsNext(TopOf(r, t).mw, run.context)
        /\ runs' =
             IF IndexOf(r, t) >= Len(ListOf(r, t))
             THEN [runs EXCEPT ![r].tasks[t].stack = StackAt(s, "resumed")]
             ELSE [runs EXCEPT
                     ![r].tasks[t].stack =
                         Append(StackAt(s, "awaiting"),
                                Frame(ListOf(r, t)[IndexOf(r, t) + 1], "body")),
                     ![r].index[ph] = IndexOf(r, t) + 1,
                     ![r].invoked =
                         Append(run.invoked, ListOf(r, t)[IndexOf(r, t) + 1].name),
                     ![r].calledBy = Append(run.calledBy, TopOf(r, t).mw.name)]
        /\ UNCHANGED << parseVars, routeVars, chainVars, navVars, cacheVars, groupVars,
                        mutateVars >>

\* next() is called and its promise dropped: the handler it calls runs as a
\* task nothing awaits, and the caller goes on.
NextDropped(r, t) ==
    LET run == runs[r]
        s == run.tasks[t].stack
        ph == run.tasks[t].phase
    IN  /\ s # << >>
        /\ TopOf(r, t).pc = "body"
        /\ TopOf(r, t).mw.does = "dropsNext"
        /\ runs' =
             IF IndexOf(r, t) >= Len(ListOf(r, t))
             THEN [runs EXCEPT ![r].tasks[t].stack = StackAt(s, "resumed")]
             ELSE [runs EXCEPT
                     ![r].tasks =
                         Append([run.tasks EXCEPT ![t].stack = StackAt(s, "resumed")],
                                Task(ph, << Frame(DroppedNext, "awaiting"),
                                            Frame(ListOf(r, t)[IndexOf(r, t) + 1],
                                                  "body") >>)),
                     ![r].index[ph] = IndexOf(r, t) + 1,
                     ![r].invoked =
                         Append(run.invoked, ListOf(r, t)[IndexOf(r, t) + 1].name),
                     ![r].calledBy = Append(run.calledBy, TopOf(r, t).mw.name)]
        /\ UNCHANGED << parseVars, routeVars, chainVars, navVars, cacheVars, groupVars,
                        mutateVars >>

\* The next() a handler awaited has resolved and the handler calls next()
\* once more.
NextCalledAgain(r, t) ==
    LET s == runs[r].tasks[t].stack
    IN  /\ s # << >>
        /\ TopOf(r, t).pc = "resumed"
        /\ TopOf(r, t).mw.does = "nextTwice"
        /\ runs' = [runs EXCEPT ![r].tasks[t].stack[Len(s)] =
                       Frame([TopOf(r, t).mw EXCEPT !.does = "awaitNext"], "body")]
        /\ UNCHANGED << parseVars, routeVars, chainVars, navVars, cacheVars, groupVars,
                        mutateVars >>

\* A handler returns; the next() that called it resolves.
HandlerReturns(r, t) ==
    LET s == runs[r].tasks[t].stack
    IN  /\ Len(s) >= 2
        /\ \/ TopOf(r, t).pc = "body" /\ TopOf(r, t).mw.does = "noNext"
           \/ /\ TopOf(r, t).pc = "resumed"
              /\ TopOf(r, t).mw.does \in { "awaitNext", "hangsOnParams", "dropsNext" }
        /\ runs' = [runs EXCEPT ![r].tasks[t].stack = StackPopTo(s, "resumed")]
        /\ UNCHANGED << parseVars, routeVars, chainVars, navVars, cacheVars, groupVars,
                        mutateVars >>

\* A handler throws; the next() that called it catches the error and throws
\* the error it creates for that middleware.
HandlerThrows(r, t) ==
    LET s == runs[r].tasks[t].stack
        name == TopOf(r, t).mw.name
    IN  /\ Len(s) >= 2
        /\ \/ TopOf(r, t).pc = "body" /\ TopOf(r, t).mw.does = "throwBefore"
           \/ TopOf(r, t).pc = "resumed" /\ TopOf(r, t).mw.does = "throwAfter"
        /\ runs' = [runs EXCEPT
                      ![r].tasks[t].stack = StackPopTo(s, "rejected"),
                      ![r].tasks[t].error = MiddlewareError(name, HandlerError(name))]
        /\ UNCHANGED << parseVars, routeVars, chainVars, navVars, cacheVars, groupVars,
                        mutateVars >>

\* The next() a handler awaited rejected: the handler rejects with that
\* error, and the next() that called the handler catches it in turn.
NextRejected(r, t) ==
    LET s == runs[r].tasks[t].stack
    IN  /\ Len(s) >= 2
        /\ TopOf(r, t).pc = "rejected"
        /\ runs' = [runs EXCEPT
                      ![r].tasks[t].stack = StackPopTo(s, "rejected"),
                      ![r].tasks[t].error =
                          MiddlewareError(TopOf(r, t).mw.name, runs[r].tasks[t].error)]
        /\ UNCHANGED << parseVars, routeVars, chainVars, navVars, cacheVars, groupVars,
                        mutateVars >>

\* A dropped next() settles: nothing observes its result.
DroppedSettles(r, t) ==
    LET s == runs[r].tasks[t].stack
    IN  /\ t > 1
        /\ Len(s) = 1
        /\ TopOf(r, t).pc \in { "resumed", "rejected" }
        /\ runs' = [runs EXCEPT ![r].tasks[t].stack = << >>]
        /\ UNCHANGED << parseVars, routeVars, chainVars, navVars, cacheVars, groupVars,
                        mutateVars >>

\* executeChain returns: after the before list execute enters it again with
\* the after list; after the after list execute resolves and Router.execute
\* returns the context.
ChainPhaseDone(r) ==
    LET run == runs[r]
    IN  /\ run.nav = "MiddlewareRunning"
        /\ Len(run.tasks[1].stack) = 1
        /\ TopOf(r, 1).pc = "resumed"
        /\ runs' =
             IF run.tasks[1].phase = "before"
             THEN [runs EXCEPT ![r].tasks[1] =
                      Task("after", << Frame(ChainFrame, "body") >>)]
             ELSE [runs EXCEPT ![r].tasks[1].stack = << >>,
                               ![r].nav = "Completed",
                               ![r].outcome = [returned |-> run.context]]
        /\ UNCHANGED << parseVars, routeVars, chainVars, navVars, cacheVars, groupVars,
                        mutateVars >>

\* executeChain rejects, execute with it, and Router.execute throws for what
\* it caught.
ChainRejects(r) ==
    LET run == runs[r]
    IN  /\ run.nav = "MiddlewareRunning"
        /\ Len(run.tasks[1].stack) = 1
        /\ TopOf(r, 1).pc = "rejected"
        /\ runs' = [runs EXCEPT
                      ![r].tasks[1].stack = << >>,
                      ![r].nav = "Failed",
                      ![r].outcome = [threw |-> RouteExecutionFailed(run.tasks[1].error)]]
        /\ UNCHANGED << parseVars, routeVars, chainVars, navVars, cacheVars, groupVars,
                        mutateVars >>

\* The steps of the handlers that await every next() they call.
AwaitingStep(r) ==
    \/ \E t \in 1..Len(runs[r].tasks) : NextCalled(r, t)
    \/ \E t \in 1..Len(runs[r].tasks) : HandlerReturns(r, t)
    \/ \E t \in 1..Len(runs[r].tasks) : HandlerThrows(r, t)
    \/ \E t \in 1..Len(runs[r].tasks) : NextRejected(r, t)
    \/ ChainPhaseDone(r)
    \/ ChainRejects(r)

RunNextCalled == \E r \in 1..Len(runs) : \E t \in 1..Len(runs[r].tasks) : NextCalled(r, t)

RunHandlerReturns ==
    \E r \in 1..Len(runs) : \E t \in 1..Len(runs[r].tasks) : HandlerReturns(r, t)

RunHandlerThrows ==
    \E r \in 1..Len(runs) : \E t \in 1..Len(runs[r].tasks) : HandlerThrows(r, t)

RunNextRejected ==
    \E r \in 1..Len(runs) : \E t \in 1..Len(runs[r].tasks) : NextRejected(r, t)

RunNextDropped ==
    \E r \in 1..Len(runs) : \E t \in 1..Len(runs[r].tasks) : NextDropped(r, t)

RunNextCalledAgain ==
    \E r \in 1..Len(runs) : \E t \in 1..Len(runs[r].tasks) : NextCalledAgain(r, t)

RunDroppedSettles ==
    \E r \in 1..Len(runs) : \E t \in 1..Len(runs[r].tasks) : DroppedSettles(r, t)

RunChainPhaseDone == \E r \in 1..Len(runs) : ChainPhaseDone(r)

RunChainRejects == \E r \in 1..Len(runs) : ChainRejects(r)

\* A served router: the routes registered, and after the built-ins the
\* handlers given, registered with Router.use.
Serving(handlers) ==
    /\ parseInput = undefined
    /\ parseResult = undefined
    /\ routeTree = ServedTree
    /\ addCalls = 2
    /\ addOutcome = undefined
    /\ matchPath = undefined
    /\ matchResult = undefined
    /\ middlewares = ConstructedChain \o handlers
    /\ regOrder = NamesOf(ConstructedChain \o handlers)
    /\ chainState = "idle"
    /\ chainList = [before |-> << >>, after |-> << >>]
    /\ index = 0
    /\ stack = << >>
    /\ invoked = << >>
    /\ chainError = undefined
    /\ navState = "Idle"
    /\ navPath = undefined
    /\ navMatch = undefined
    /\ navOutcome = undefined
    /\ navCalls = 0
    /\ CacheConstructed
    /\ groupCall = undefined
    /\ runs = << >>
    /\ mutations = << >>

\* Handlers that await every next() they call: A before the route is
\* rendered, Z of the after phase.
AwaitingHandlers ==
    { << Middleware("A", "unset", does), Middleware("Z", "after", "awaitNext") >> :
        does \in Behaviours \cup { "hangsOnParams" } }

InitConcurrent == \E handlers \in AwaitingHandlers : Serving(handlers)

NextConcurrent ==
    \/ Navigate
    \/ RunNextCalled \/ RunHandlerReturns \/ RunHandlerThrows \/ RunNextRejected
    \/ RunChainPhaseDone \/ RunChainRejects

SpecConcurrent == InitConcurrent /\ [][NextConcurrent]_vars

\* Handlers that may do anything with next(): A and B in turn before the
\* route is rendered, C before it or of the after phase.
AnyHandlers ==
    { << Middleware("A", "unset", a), Middleware("B", "unset", b),
         Middleware("C", phase, "awaitNext") >> :
        a \in Behaviours \cup MoreBehaviours,
        b \in Behaviours \cup MoreBehaviours,
        phase \in { "unset", "after" } }

InitHandlers == \E handlers \in AnyHandlers : Serving(handlers)

NextHandlers ==
    \/ NextConcurrent
    \/ RunNextDropped \/ RunNextCalledAgain \/ RunDroppedSettles

SpecHandlers == InitHandlers /\ [][NextHandlers]_vars

(* DataManager.mutate over its MemoryCache. *)

\* How many mutate calls one behaviour makes.
MaxMutations == 2

\* The options a mutate call is handed: whether it has an optimisticUpdate,
\* whether it rolls back on error, whether it revalidates on success.
MutationOptions ==
    [optimisticUpdate : BOOLEAN, rollbackOnError : BOOLEAN, revalidate : BOOLEAN]

\* What the mutationFn does when awaited.
MutationOutcomes == { "resolves", "rejects" }

\* The optimisticUpdate of this model: the data with a mark added.
optimisticUpdate(data) == data \o "+"

\* The entry mutate stores for an optimistic update and for a rollback.
MutationEntry(data, t) ==
    [data |-> data, timestamp |-> t, ttl |-> 0, tags |-> << >>, isStale |-> TRUE]

\* this.cache.get(key)?.data, kept apart from the absence of data.
DataIn(entry) == IF entry = undefined THEN undefined ELSE [data |-> entry.data]

\* The data the catch block writes back: the currentData the call read when
\* it started.
RolledBackTo(call, c) == call.currentData.data

\* dataManager.mutate(key, mutationFn, options) up to its await: the current
\* data is read with cache.get, the optimistic update is stored if there is
\* one and there is data, and mutationFn is called and awaited.
Mutate ==
    /\ Len(mutations) < MaxMutations
    /\ \E key \in Keys : \E options \in MutationOptions :
          LET got == GetReturns(cache, key, now)
              left == GetLeaves(cache, key, now)
          IN  /\ GetQueues(cache, key, now) /\ key \notin revalidationQueue
                 => Len(timers) < MaxTimers
              /\ IF GetQueues(cache, key, now)
                 THEN queueRevalidation(key)
                 ELSE UNCHANGED << revalidationQueue, timers >>
              /\ cache' =
                   IF options.optimisticUpdate /\ got # undefined
                   THEN [left EXCEPT ![key] =
                            MutationEntry(optimisticUpdate(got.data), now)]
                   ELSE left
              /\ mutations' = Append(mutations,
                                     [key |-> key, options |-> options,
                                      currentData |-> DataIn(got),
                                      state |-> "pending"])
              /\ cacheOp' = [op |-> "mutate", key |-> key]
    /\ UNCHANGED << isRevalidating, now, inFlight, processed, fetchCall,
                    fetchOutcome, parseVars, routeVars, chainVars, navVars,
                    groupVars, runVars >>

\* The awaited mutationFn settles: on success the key is revalidated if the
\* options say so and the result returned; on failure the current data read
\* at the start is written back if the options say so, and the error thrown.
MutateSettles ==
    /\ \E m \in 1..Len(mutations) : \E outcome \in MutationOutcomes :
          LET call == mutations[m]
          IN  /\ call.state = "pending"
              /\ IF outcome = "resolves"
                 THEN /\ mutations' = [mutations EXCEPT ![m].state = "resolved"]
                      /\ IF call.options.revalidate
                         THEN RevalidateCalled([tags |-> << call.key >>])
                         ELSE UNCHANGED << revalidationQueue, isRevalidating,
                                           inFlight, processed >>
                      /\ UNCHANGED cache
                 ELSE /\ mutations' = [mutations EXCEPT ![m].state = "rejected"]
                      /\ cache' =
                           IF call.options.rollbackOnError
                              /\ call.currentData # undefined
                           THEN [cache EXCEPT ![call.key] =
                                    MutationEntry(RolledBackTo(call, cache), now)]
                           ELSE cache
                      /\ UNCHANGED << revalidationQueue, isRevalidating,
                                      inFlight, processed >>
              /\ cacheOp' = [op |-> "mutated", key |-> call.key]
    /\ UNCHANGED << timers, now, fetchCall, fetchOutcome, parseVars, routeVars,
                    chainVars, navVars, groupVars, runVars >>

\* The entries a fetch with caching stored before the mutations start.
Fetched == FetchedEntry("fresh", [strategy |-> [number |-> 400], tags |-> << >>], 0)

\* A DataManager whose cache holds what earlier fetches stored.
InitMutate ==
    /\ parseInput = undefined
    /\ parseResult = undefined
    /\ routeTree = EmptyTree
    /\ addCalls = 0
    /\ addOutcome = undefined
    /\ matchPath = undefined
    /\ matchResult = undefined
    /\ middlewares = << >>
    /\ regOrder = << >>
    /\ chainState = "idle"
    /\ chainList = [before |-> << >>, after |-> << >>]
    /\ index = 0
    /\ stack = << >>
    /\ invoked = << >>
    /\ chainError = undefined
    /\ navState = "Idle"
    /\ navPath = undefined
    /\ navMatch = undefined
    /\ navOutcome = undefined
    /\ navCalls = 0
    /\ cache \in [Keys -> { undefined, Fetched }]
    /\ revalidationQueue = {}
    /\ isRevalidating = FALSE
    /\ timers = << >>
    /\ now = 0
    /\ inFlight = 0
    /\ processed = [key \in Keys |-> 0]
    /\ cacheOp = [op |-> "none"]
    /\ fetchCall = undefined
    /\ fetchOutcome = undefined
    /\ groupCall = undefined
    /\ runs = << >>
    /\ mutations = << >>

NextMutate == Mutate \/ MutateSettles \/ RevalidateDone

SpecMutate == InitMutate /\ [][NextMutate]_vars

NextCache ==
    \/ Get \/ Set \/ Delete \/ Clear
    \/ Revalidate \/ RevalidateDone \/ TimerFires \/ Tick

SpecCache == Init /\ [][NextCache]_vars

\* The cache as a DataManager owns it: entries come from fetch.
NextData ==
    \/ Fetch \/ FetchSettles
    \/ Get \/ RevalidateDone \/ TimerFires \/ Tick

SpecData == Init /\ [][NextData]_vars

-----------------------------------------------------------------------------
(* Vocabulary of the properties: what a pattern means, stated without the   *)
(* parser and the matcher.                                                  *)

\* A valid parameter name: non-empty, every character in [A-Za-z0-9_].
IsName(n) == n # << >> /\ \A i \in 1..Len(n) : n[i] \in NameChar

NoBracket(c) == \A i \in 1..Len(c) : c[i] \notin { "[", "]" }

\* The text between `open` and `close` when component c has that form, else
\* NoMatch; the text itself holds no bracket.
Between(open, close, c) ==
    LET n == Len(c) - Len(open) - Len(close)
        inner == SubSeq(c, Len(open) + 1, Len(open) + n)
    IN IF n >= 0 /\ c = open \o inner \o close /\ NoBracket(inner)
       THEN << inner >>
       ELSE NoMatch

CatchAllOpen == << "[", "[", ".", ".", "." >>

\* The segment a component denotes by the documented precedence (catch-all,
\* optional, dynamic, static), for the components whose form is one of the
\* four with a valid name; undefined for every other component.
Denotes(c) ==
    LET ca == Between(CatchAllOpen, << "]", "]" >>, c)
        op == Between(<< "[", "[" >>, << "]", "]" >>, c)
        dy == Between(<< "[" >>, << "]" >>, c)
    IN IF ca # NoMatch /\ IsName(ca[1]) THEN [type |-> CATCHALL, name |-> ca[1]]
       ELSE IF op # NoMatch /\ IsName(op[1]) THEN [type |-> OPTIONAL, name |-> op[1]]
       ELSE IF dy # NoMatch /\ IsName(dy[1]) THEN [type |-> DYNAMIC, name |-> dy[1]]
       ELSE IF NoBracket(c) THEN [type |-> STATIC, value |-> c]
       ELSE undefined

\* A bracketed component ([name], [[name]] or [[...name]]) whose name is
\* empty or holds a character outside [A-Za-z0-9_].
BadlyNamed(c) ==
    \E form \in { << CatchAllOpen, << "]", "]" >> >>,
                  << << "[", "[" >>, << "]", "]" >> >>,
                  << << "[" >>, << "]" >> >> } :
        LET b == Between(form[1], form[2], c)
        IN b # NoMatch /\ ~ IsName(b[1])

\* The key paths of the tree that hold a route configuration.
Configured(tree) == { q \in DOMAIN tree : tree[q].config # undefined }

\* Whether the walk from the root along key path q consumes exactly the
\* components segs: a static node takes the equal component, a dynamic node
\* any one component, a catch-all node all that remain (at least one).
Consumes(tree, q, segs) ==
    /\ Len(q) >= 1 \/ segs = << >>
    /\ Len(q) <= Len(segs)
    /\ \A i \in 1..Len(q) :
          LET seg == tree[SubSeq(q, 1, i)].segment
          IN \/ seg.type = STATIC /\ seg.value = segs[i]
             \/ seg.type = DYNAMIC
             \/ seg.type = CATCHALL /\ i = Len(q)
    /\ \/ Len(q) = Len(segs)
       \/ Len(q) >= 1 /\ tree[q].segment.type = CATCHALL

\* The candidates of a pathname: the configured nodes a walk reaches at the
\* end of the path.
Branches(tree, segs) == { q \in Configured(tree) : Consumes(tree, q, segs) }

KindScore(seg) ==
    IF seg.type = STATIC THEN 100
    ELSE IF seg.type = DYNAMIC THEN 50
    ELSE IF seg.type = CATCHALL THEN 10
    ELSE 0

RECURSIVE BranchScore(_, _)
\* +100 per static, +50 per dynamic, +10 per catch-all segment consumed.
BranchScore(tree, q) ==
    IF q = << >> THEN 0
    ELSE BranchScore(tree, SubSeq(q, 1, Len(q) - 1)) + KindScore(tree[q].segment)

\* The positions of branch q that bind parameter `name`.
Binders(tree, q, name) ==
    { i \in 1..Len(q) :
        LET seg == tree[SubSeq(q, 1, i)].segment
        IN seg.type \in { DYNAMIC, CATCHALL } /\ seg.name = name }

\* The parameters bound along branch q: a dynamic node binds its component, a
\* catch-all node the remaining components joined by '/'; a later binding of
\* a name replaces an earlier one.
BranchParams(tree, q, segs) ==
    LET names == { tree[SubSeq(q, 1, i)].segment.name :
                     i \in { j \in 1..Len(q) :
                               tree[SubSeq(q, 1, j)].segment.type # STATIC } }
        last(name) == CHOOSE i \in Binders(tree, q, name) :
                          \A j \in Binders(tree, q, name) : j <= i
        value(i) == IF tree[SubSeq(q, 1, i)].segment.type = CATCHALL
                    THEN Join(SubSeq(segs, i, Len(segs)))
                    ELSE segs[i]
    IN [name \in names |-> value(last(name))]

KindRank(seg) ==
    IF seg.type = STATIC THEN 1 ELSE IF seg.type = DYNAMIC THEN 2 ELSE 3

\* Branch q is explored before branch r: where they part, q takes the static
\* child or r the catch-all one.
ExploredBefore(tree, q, r) ==
    \E i \in 1..Len(q) :
        /\ i <= Len(r)
        /\ SubSeq(q, 1, i - 1) = SubSeq(r, 1, i - 1)
        /\ KindRank(tree[SubSeq(q, 1, i)].segment)
             < KindRank(tree[SubSeq(r, 1, i)].segment)

\* The match a branch stands for.
BranchMatch(tree, q, segs) ==
    [route |-> tree[q].config, params |-> BranchParams(tree, q, segs),
     score |-> BranchScore(tree, q)]

\* The components of the pathname of the last matchRoute call.
MatchedSegments == SplitPath(matchPath.pathname)

\* The last addRoute call registered `path`, and it is the only call so far.
OnlyRoute(path) ==
    /\ addCalls = 1
    /\ addOutcome.config.path = path

RECURSIVE Instantiations(_, _)
\* The parameter sets with which a pathname instantiates a pattern, given as
\* the segments its components denote: a static segment stands for itself, a
\* dynamic one for any one component, an optional one for one component or
\* none, a catch-all one for all the remaining components.
Instantiations(pattern, segs) ==
    IF pattern = << >> THEN (IF segs = << >> THEN { NoParams } ELSE {})
    ELSE LET seg == Head(pattern)
             one == IF segs = << >> THEN {}
                    ELSE Instantiations(Tail(pattern), Tail(segs))
         IN IF seg.type = STATIC
            THEN (IF segs # << >> /\ Head(segs) = seg.value THEN one ELSE {})
            ELSE IF seg.type = DYNAMIC
            THEN { WithParam(ps, seg.name, Head(segs)) : ps \in one }
            ELSE IF seg.type = OPTIONAL
            THEN { WithParam(ps, seg.name, Head(segs)) : ps \in one }
                 \cup Instantiations(Tail(pattern), segs)
            ELSE IF segs # << >> /\ Tail(pattern) = << >>
                 THEN { WithParam(NoParams, seg.name, Join(segs)) }
                 ELSE {}

\* The segments the components of a path denote, when each denotes one.
WellFormed(path) ==
    \A i \in 1..Len(SplitPath(path)) : Denotes(SplitPath(path)[i]) # undefined

DenotedSegments(path) ==
    [i \in 1..Len(SplitPath(path)) |-> Denotes(SplitPath(path)[i])]

-----------------------------------------------------------------------------
(* Properties of the matcher and the tree, under SpecRoute. *)

\* C1: for a tree built by addRoute calls that holds a fully static route p,
\* matchRoute(p, tree) returns p's own configuration, binds no parameter and
\* scores strictly above every candidate for that path that consumed a
\* dynamic segment.
C1_StaticRouteWins ==
    matchPath # undefined =>
        \A q \in Configured(routeTree) :
            LET config == routeTree[q].config
                parts == SplitPath(config.path)
            IN /\ \A i \in 1..Len(parts) : NoBracket(parts[i])
               /\ parts = MatchedSegments
               => /\ matchResult # undefined
                  /\ matchResult.route = config
                  /\ matchResult.params = NoParams
                  /\ \A r \in Branches(routeTree, MatchedSegments) :
                        (\E i \in 1..Len(r) :
                            routeTree[SubSeq(r, 1, i)].segment.type = DYNAMIC)
                        => BranchScore(routeTree, r) < matchResult.score

\* C2: matchRoute returns none exactly when no walk reaches the end of the
\* path on a configured node; otherwise it returns the candidate of maximal
\* cumulative score (+100 static, +50 dynamic, +10 catch-all), the first
\* explored (static, then dynamic, then catch-all) among those of that score.
C2_BestCandidateFirstFound ==
    matchPath # undefined =>
        LET B == Branches(routeTree, MatchedSegments)
        IN /\ matchResult = undefined <=> B = {}
           /\ B # {} =>
                \E q \in B :
                    /\ matchResult = BranchMatch(routeTree, q, MatchedSegments)
                    /\ \A r \in B :
                          BranchScore(routeTree, r) <= BranchScore(routeTree, q)
                    /\ \A r \in B \ { q } :
                          BranchScore(routeTree, r) = BranchScore(routeTree, q)
                          => ExploredBefore(routeTree, q, r)

\* C2, its case: a match was returned although another candidate has the
\* same, maximal score.
C2_TieReached ==
    /\ matchPath # undefined
    /\ matchResult # undefined
    /\ \E q \in Branches(routeTree, MatchedSegments) :
       \E r \in Branches(routeTree, MatchedSegments) :
          /\ q # r
          /\ BranchScore(routeTree, q) = matchResult.score
          /\ BranchScore(routeTree, r) = matchResult.score

\* C3: round trip. With one route registered, of whatever segment kinds
\* (static, dynamic, optional, catch-all), addRoute accepts it, matchRoute
\* returns it for exactly the pathnames that instantiate its pattern, and
\* the parameters returned are those of the instantiation (an optional
\* segment binds its parameter when its component is present and leaves it
\* unbound when absent).
C3_RoundTrip ==
    /\ matchPath # undefined
    /\ addCalls = 1
    /\ WellFormed(addOutcome.config.path)
    => LET inst == Instantiations(DenotedSegments(addOutcome.config.path),
                                  MatchedSegments)
       IN /\ addOutcome.threw = undefined
          /\ matchResult = undefined <=> inst = {}
          /\ matchResult # undefined =>
                /\ matchResult.route = addOutcome.config
                /\ matchResult.params \in inst

\* The route paths /a/[name]/b of the inputs, by parameter name.
ABPattern(name) == << "/", "a", "/", "[" >> \o name \o << "]", "/", "b" >>

ParamNames == { << "n" >>, << "i", "d" >>, << "_", "1" >> }

\* C4: with /a/[name]/b registered, name any valid parameter name, matching
\* /a/v/b binds params.name to the component v and binds nothing else.
C4_DynamicBindsComponent ==
    \A name \in ParamNames :
        /\ OnlyRoute(ABPattern(name))
        /\ matchPath # undefined
        /\ Len(MatchedSegments) = 3
        /\ MatchedSegments[1] = << "a" >>
        /\ MatchedSegments[3] = << "b" >>
        => /\ matchResult # undefined
           /\ matchResult.route = addOutcome.config
           /\ DOMAIN matchResult.params = { name }
           /\ matchResult.params[name] = MatchedSegments[2]

\* C4, its case: /a/42/b was matched against /a/[id]/b and id is "42".
C4_Bound42 ==
    /\ OnlyRoute(ABPattern(<< "i", "d" >>))
    /\ matchPath = [pathname |-> << "/", "a", "/", "4", "2", "/", "b" >>]
    /\ matchResult # undefined
    /\ matchResult.params[<< "i", "d" >>] = << "4", "2" >>

FilesRest == << "/", "f", "/", "[", "[", ".", ".", ".", "r", "]", "]" >>

\* C5: registering /files/[[...rest]] succeeds, and matching /files/a/b/c
\* against it yields params.rest = "a/b/c".
C5_CatchAllRest ==
    /\ addOutcome # undefined /\ addOutcome.config.path = FilesRest
       => addOutcome.threw = undefined
    /\ /\ matchPath = [pathname |-> << "/", "f", "/", "a", "/", "b", "/", "c" >>]
       /\ OnlyRoute(FilesRest)
       => /\ matchResult # undefined
          /\ DOMAIN matchResult.params = { << "r" >> }
          /\ matchResult.params[<< "r" >>] = << "a", "/", "b", "/", "c" >>

\* Some component of a path is a bracketed one with an invalid name.
HasBadName(path) ==
    \E i \in 1..Len(SplitPath(path)) : BadlyNamed(SplitPath(path)[i])

\* C19: an addRoute call whose path holds a bracketed component with an
\* invalid name fails with InvalidSegmentName and leaves the route tree as it
\* was: no node created for the segments before the bad one, no
\* configuration attached or replaced, no middleware appended.
C19_FailedAddLeavesTree ==
    /\ [] (addOutcome # undefined /\ HasBadName(addOutcome.config.path)
           => addOutcome.threw = InvalidSegmentName)
    /\ [][addCalls' # addCalls /\ HasBadName(addOutcome'.config.path)
          => routeTree' = routeTree]_vars

\* Branch q consumes a catch-all segment.
HasCatchAll(tree, q) ==
    \E i \in 1..Len(q) : tree[SubSeq(q, 1, i)].segment.type = CATCHALL

\* C20: matchRoute returns a candidate that consumed a catch-all segment
\* only when the path has no candidate built from static and dynamic
\* segments alone.
C20_CatchAllLastResort ==
    matchPath # undefined /\ matchResult # undefined
    => \A q \in Branches(routeTree, MatchedSegments) :
          /\ routeTree[q].config = matchResult.route
          /\ HasCatchAll(routeTree, q)
          => \A r \in Branches(routeTree, MatchedSegments) :
                HasCatchAll(routeTree, r)

-----------------------------------------------------------------------------
(* Properties of the parser, under SpecParse. *)

\* C6: parseRoute splits on '/', drops the empty components and classifies
\* each component by the precedence catch-all, optional, dynamic, static:
\* [[...name]] is CatchAll{name}, [[name]] Optional{name}, [name]
\* Dynamic{name}, any other component Static{value}, in component order.
C6_Classification ==
    parseInput # undefined /\ WellFormed(parseInput.path)
    => parseResult = [segments |-> DenotedSegments(parseInput.path)]

\* C7: parsing fails with InvalidSegmentName for every bracketed component
\* whose name is empty or holds a character outside [A-Za-z0-9_].
C7_BadNameRejected ==
    /\ parseInput # undefined
    /\ \E i \in 1..Len(SplitPath(parseInput.path)) :
          BadlyNamed(SplitPath(parseInput.path)[i])
    => parseResult = InvalidSegmentName

-----------------------------------------------------------------------------
(* Properties of the middleware chain, under SpecChain. *)

\* The registered middleware of a name (names are registered once).
Registered(name) ==
    CHOOSE m \in { middlewares[i] : i \in 1..Len(middlewares) } : m.name = name

\* Every registered handler awaits next() and returns.
AllAwaitNext ==
    \A i \in 1..Len(middlewares) : middlewares[i].does = "awaitNext"

\* The names in registration order whose middleware is, or is not, of the
\* after phase.
RegisteredInPhase(after) ==
    SelectSeq(regOrder, LAMBDA n : (Registered(n).phase = "after") = after)

ComesAfter(g, h) ==
    /\ \E i \in 1..Len(regOrder) : \E j \in 1..Len(regOrder) :
          i < j /\ regOrder[i] = h /\ regOrder[j] = g
    /\ \E i \in 1..Len(middlewares) : \E j \in 1..Len(middlewares) :
          i < j /\ middlewares[i].name = h /\ middlewares[j].name = g

WasInvoked(name) == \E i \in 1..Len(invoked) : invoked[i] = name

\* C9: a handler that returns without invoking next() halts the chain
\* silently: no handler that comes after it runs in that execute call, in
\* the before phase or in the after phase, and execute does not reject.
C9_HaltIsFinal ==
    \A h \in { invoked[i] : i \in 1..Len(invoked) } :
        Registered(h).does = "noNext"
        => /\ \A i \in 1..Len(middlewares) :
                 ComesAfter(middlewares[i].name, h)
                 => ~ WasInvoked(middlewares[i].name)
           /\ chainState # "rejected"

\* The error execute rejected with names a handler that throws and carries
\* the message of that handler's own error.
TaggedWithFailingHandler ==
    chainState = "rejected"
    => \E i \in 1..Len(invoked) :
          /\ Registered(invoked[i]).does \in { "throwBefore", "throwAfter" }
          /\ chainError.message = FailedMessage(invoked[i])
          /\ chainError.details = HandlerError(invoked[i]).message

\* C10: when a handler throws, execute rejects with a MiddlewareError tagged
\* with the name of the handler that failed (not of a handler that awaited
\* next() around it) and carrying that handler's own error as its cause, and
\* once a handler has failed no further handler is invoked.
C10_RejectsWithFailingHandler ==
    /\ [] TaggedWithFailingHandler
    /\ [][chainError # undefined => invoked' = invoked]_vars

-----------------------------------------------------------------------------
(* Properties of Router.execute, under SpecRouter. *)

\* The node whose configuration the current navigation matched.
MatchedNode ==
    CHOOSE q \in Configured(routeTree) : routeTree[q].config = navMatch.route

\* The names of the handlers in the middleware lists of the nodes in Q.
NodeHandlers(Q) ==
    UNION { { routeTree[q].middleware[i].name :
                i \in 1..Len(routeTree[q].middleware) } : q \in Q }

\* The first position of a name in the invocation history.
FirstInvoked(name) ==
    CHOOSE i \in 1..Len(invoked) :
        invoked[i] = name /\ \A j \in 1..(i - 1) : invoked[j] # name

\* What C11 says of a navigation that has run its handlers.
NodeMiddlewareRan ==
    LET own == routeTree[MatchedNode].middleware
    IN /\ \A i \in 1..Len(own) : WasInvoked(own[i].name)
       /\ \A i \in 1..Len(own) : \A j \in 1..Len(own) :
             /\ i < j
             /\ (own[i].phase = "after") = (own[j].phase = "after")
             => FirstInvoked(own[i].name) <= FirstInvoked(own[j].name)
       /\ \A i \in 1..Len(middlewares) : WasInvoked(middlewares[i].name)
       /\ \A name \in NodeHandlers((DOMAIN routeTree) \ { MatchedNode })
                      \ NodeHandlers({ MatchedNode }) :
             ~ WasInvoked(name)

\* C11: when Router.execute matches a route registered with its own
\* middleware (route-level or group-level) and every global handler awaits
\* next(), then as the call returns the handlers of the matched node have run
\* during that navigation, in the order of the node's list within each
\* phase, together with the global handlers, and the handlers of the other
\* nodes have not.
C11_NodeMiddlewareRuns ==
    [][/\ navState = "MiddlewareRunning"
       /\ navState' = "Completed"
       /\ AllAwaitNext
       => NodeMiddlewareRan]_vars

\* The steps a Router.execute call may take, a new call starting from Idle or
\* from a terminal state.
NavSteps ==
    { << "Idle", "Matching" >>,
      << "Matching", "NotFound" >>, << "Matching", "Matched" >>,
      << "Matched", "NoPage" >>, << "Matched", "MiddlewareRunning" >>,
      << "MiddlewareRunning", "Failed" >>, << "MiddlewareRunning", "Completed" >> }
    \cup { << t, "Matching" >> : t \in NavTerminal }

Throwers == { "throwBefore", "throwAfter" }

\* What a finished Router.execute call threw or returned, by its final state.
NavOutcomeFits ==
    /\ navState \in NavTerminal <=> navOutcome # undefined
    /\ navState = "NotFound"
       => /\ navMatch = undefined
          /\ navOutcome.threw.message = NotFoundMessage(navPath.pathname)
    /\ navState = "NoPage"
       => /\ navMatch # undefined
          /\ ~ navMatch.route.page
          /\ navOutcome.threw.message
               = << "Route matched but no page component found" >>
    /\ navState = "Failed"
       => /\ navOutcome.threw.message = << "Route execution failed" >>
          /\ \E i \in 1..Len(invoked) :
                /\ Registered(invoked[i]).does \in Throwers
                /\ navOutcome.threw.details = FailedMessage(invoked[i])
    /\ navState = "Completed"
       => /\ navOutcome.returned.params = navMatch.params
          /\ navOutcome.returned.pathname = navPath.pathname
          /\ \A i \in 1..Len(invoked) : Registered(invoked[i]).does \notin Throwers
    /\ invoked # << >>
       => /\ navMatch # undefined
          /\ navMatch.route.page

\* C12: each Router.execute call goes Idle, Matching, then NotFound or
\* Matched, MiddlewareRunning, then Failed or Completed; it ends in one
\* outcome: RouteNotFound when no route matches, RouteHasNoPage when the
\* matched route has no page, RouteExecutionFailed carrying the error of the
\* handler that failed, or the context of the match's params and the
\* pathname; no handler is invoked unless matching and validation succeeded,
\* and after a failure nothing more runs until the caller calls again.
C12_NavigationOutcome ==
    /\ [] NavOutcomeFits
    /\ [][/\ navState' # navState => << navState, navState' >> \in NavSteps
          /\ navState = "Matching" /\ navState' # navState
             => (navState' = "NotFound"
                   <=> Branches(routeTree, SplitPath(navPath.pathname)) = {})
          /\ navState \in NavTerminal /\ navCalls' = navCalls
             => /\ navState' = navState
                /\ navOutcome' = navOutcome
                /\ invoked' = invoked]_vars

-----------------------------------------------------------------------------
(* Properties of the cache, under SpecCache and SpecData. *)

\* The age of an entry: now - timestamp.
Age(entry) == now - entry.timestamp

\* An entry whose ttl is finite and positive.
FiniteTTL(entry) == entry.ttl # 0 /\ entry.ttl # Infinity

\* An entry past three quarters of its ttl and not past its ttl.
StaleUnexpired(entry) ==
    /\ FiniteTTL(entry)
    /\ 4 * Age(entry) > 3 * entry.ttl
    /\ Age(entry) <= entry.ttl

\* The last operation was a get that found an entry under its key.
GotPresent == cacheOp.op = "get" /\ cacheOp.was # undefined

\* C13: get(key) on a present entry with finite ttl > 0 depends only on
\* age = now - timestamp: up to 0.75*ttl it returns the entry, sets no stale
\* flag and enqueues nothing; past 0.75*ttl and up to ttl it returns the
\* entry with the stale flag set and the key is pending; past ttl it deletes
\* the entry and returns absent. An entry of ttl 0 or of the infinite ttl is
\* never evicted by time, and get on an absent key returns absent.
C13_GetByAge ==
    cacheOp.op = "get"
    => LET e == cacheOp.was
           r == cacheOp.result
           key == cacheOp.key
       IN /\ e = undefined => r = undefined /\ cache[key] = undefined
          /\ e # undefined /\ FiniteTTL(e) /\ 4 * Age(e) <= 3 * e.ttl
             => /\ r = e
                /\ cache[key] = e
                /\ key \in revalidationQueue <=> cacheOp.pending
          /\ e # undefined /\ StaleUnexpired(e)
             => /\ r = [e EXCEPT !.isStale = TRUE]
                /\ cache[key] = r
                /\ key \in revalidationQueue
          /\ e # undefined /\ FiniteTTL(e) /\ Age(e) > e.ttl
             => /\ r = undefined
                /\ cache[key] = undefined
          /\ e # undefined /\ ~ FiniteTTL(e)
             => /\ r = e
                /\ cache[key] = e

\* C13, its case: a get found an entry exactly at three quarters of its ttl
\* and returned it unflagged, the key not pending.
C13_AtThreshold ==
    /\ GotPresent
    /\ FiniteTTL(cacheOp.was)
    /\ 4 * Age(cacheOp.was) = 3 * cacheOp.was.ttl
    /\ cacheOp.result = cacheOp.was
    /\ ~ cacheOp.result.isStale
    /\ cacheOp.key \notin revalidationQueue

\* C14: while an entry is stale and not expired, the get(key) calls made
\* within one debounce window (100 ms from the first stale read) trigger one
\* debounced revalidation: each returns the entry and leaves the key
\* pending, and one timer is scheduled for the key, so no two timers of a key
\* were set less than the debounce delay apart.
C14_OneTimerPerWindow ==
    /\ GotPresent /\ StaleUnexpired(cacheOp.was)
       => /\ cacheOp.result # undefined
          /\ cacheOp.key \in revalidationQueue
          /\ \E i \in 1..Len(timers) : timers[i].key = cacheOp.key
    /\ \A i \in 1..Len(timers) : \A j \in 1..Len(timers) :
          i < j /\ timers[i].key = timers[j].key
          => timers[j].due - DebounceDelay >= timers[i].due

\* C15: at most one revalidation pass is in flight; a revalidate() call made
\* while one is in flight changes nothing (it processes no entry, leaves no
\* work queued and does not fail), so over the two calls every cached key is
\* processed once.
C15_SecondCallNoOp ==
    /\ [] (inFlight <= 1 /\ \A key \in Keys : processed[key] <= 1)
    /\ [][inFlight >= 1 /\ cacheOp'.op = "revalidate"
          => UNCHANGED << cache, revalidationQueue, isRevalidating, timers,
                          inFlight, processed >>]_vars

\* C15, its case: revalidate() was called while a pass that processed a key
\* was in flight.
C15_CalledInFlight ==
    /\ cacheOp.op = "revalidate"
    /\ cacheOp.busy
    /\ inFlight = 1
    /\ \E key \in Keys : processed[key] = 1

\* C16: a ttl of 0 means do not cache: the get that follows set(key, entry
\* with ttl 0) treats the entry as needing refresh, so the key is pending
\* revalidation and the entry is not served as fresh.
C16_ZeroTTLRevalidates ==
    GotPresent /\ cacheOp.was.ttl = 0
    => /\ cacheOp.key \in revalidationQueue
       /\ cacheOp.result = undefined \/ cacheOp.result.isStale

\* C17: a stale-but-unexpired entry is still returned to readers, by
\* MemoryCache.get and by DataManager.fetch with caching on, whatever its
\* refetch does: the entry stays in the cache and the read is not an error.
C17_StaleEntryServed ==
    /\ GotPresent /\ StaleUnexpired(cacheOp.was)
       => /\ cacheOp.result # undefined
          /\ cacheOp.result.data = cacheOp.was.data
          /\ cache[cacheOp.key] # undefined
    /\ /\ fetchOutcome # undefined
       /\ fetchOutcome.cached # undefined
       /\ fetchOutcome.cached.isStale
       => /\ "returned" \in DOMAIN fetchOutcome
          /\ fetchOutcome.returned.data \in { fetchOutcome.cached.data, "fresh" }
          /\ cache[fetchOutcome.key] # undefined

\* C18: staleness signals are coalesced by one debounced timer: at most one
\* timer is pending, a staleness signal sets it to fire a full debounce delay
\* later, and when it fires one pass runs for the whole pending batch.
C18_SingleDebouncedTimer ==
    /\ Len(timers) <= 1
    /\ GotPresent /\ StaleUnexpired(cacheOp.was)
       => /\ Len(timers) = 1
          /\ timers[1].due = now + DebounceDelay
    /\ cacheOp.op = "timer"
       => /\ cacheOp.ran
          /\ revalidationQueue = {}

-----------------------------------------------------------------------------
(* Properties of the built-in handlers, under SpecRouter. *)

\* The names of the handlers the constructor put into the global chain.
BuiltInNames == NamesOf(ConstructedChain)

\* The names of the built-in handlers lead the names of a list, in the order
\* of the constructor.
BuiltInsLead(list) ==
    /\ Len(list) >= Len(BuiltInNames)
    /\ SubSeq(NamesOf(list), 1, Len(BuiltInNames)) = BuiltInNames

\* A handler registered through Router.use threw during this navigation.
UserHandlerThrew ==
    \E i \in 1..Len(invoked) :
        /\ invoked[i] \notin { BuiltInNames[k] : k \in 1..Len(BuiltInNames) }
        /\ Registered(invoked[i]).does \in Throwers
        /\ chainError # undefined

-----------------------------------------------------------------------------
(* Properties of Router.group, under SpecGroup. *)

\* What the last Router.group call returned, against its arguments: one
\* definition per route given, with the route's path and page, the group
\* attached, the group's handlers first and the route's own behind them, and
\* the group's layout when the group has one (the route's own otherwise).
GroupReturnFits ==
    LET options == groupCall.options
        routes == groupCall.routes
        returned == groupCall.returned
        ofGroup == IF "middleware" \in DOMAIN options
                   THEN options.middleware ELSE << >>
    IN /\ Len(returned) = Len(routes)
       /\ \A i \in 1..Len(routes) :
             /\ returned[i].path = routes[i].path
             /\ returned[i].page = routes[i].page
             /\ returned[i].group = options
             /\ Len(returned[i].middleware)
                  = Len(ofGroup) + Len(routes[i].middleware)
             /\ \A k \in 1..Len(ofGroup) :
                   returned[i].middleware[k] = ofGroup[k]
             /\ \A k \in 1..Len(routes[i].middleware) :
                   returned[i].middleware[Len(ofGroup) + k]
                     = routes[i].middleware[k]
             /\ "layout" \in DOMAIN options
                => returned[i].layout = options.layout
             /\ "layout" \notin DOMAIN options /\ "layout" \in DOMAIN routes[i]
                => returned[i].layout = routes[i].layout
       /\ groupCall.routesAfter = routes

\* C22: Router.group returns, for each route it is given, a new definition
\* carrying the group's middleware followed by the route's own and the
\* group's layout, and the call leaves the route tree, the global chain and
\* the definitions it was given as they were.
C22_GroupIsPure ==
    /\ [](groupCall # undefined => GroupReturnFits)
    /\ [][groupCall' # groupCall /\ groupCall' # undefined
          => /\ routeTree' = routeTree
             /\ middlewares' = middlewares
             /\ regOrder' = regOrder]_vars

\* Router.group was called on a router holding a route and a handler of its
\* own, with a group of two handlers and a layout and a route with a handler.
C22_GroupedWithBoth ==
    /\ groupCall # undefined
    /\ DOMAIN routeTree # { << >> }
    /\ Len(middlewares) > Len(ConstructedChain)
    /\ "layout" \in DOMAIN groupCall.options
    /\ NamesOf(groupCall.returned[1].middleware) = << "G", "H", "S" >>

-----------------------------------------------------------------------------
(* Properties of the children's keys, under SpecRoute. *)

SlashDynamic == << "/" >> \o DYNAMIC

SlashI == << "/", "[", "i", "]" >>

\* The kind and, for a static segment, the text of a segment.
KindOf(seg) ==
    IF seg.type = STATIC THEN [type |-> STATIC, value |-> seg.value]
    ELSE [type |-> seg.type]

\* Every node on the way to a registered configuration holds a segment of the
\* kind the configuration's own path has at that position.
NodesFitConfigs ==
    \A q \in Configured(routeTree) :
        LET segments == parseRoute(routeTree[q].config.path).segments
        IN /\ Len(segments) = Len(q)
           /\ \A i \in 1..Len(q) :
                 KindOf(routeTree[SubSeq(q, 1, i)].segment) = KindOf(segments[i])

\* C27: a static segment spelled like a type tag and a parameter segment of
\* that kind at the same level get nodes of their own, whatever was
\* registered before: the nodes leading to a configuration are of the kinds
\* of its path; once /dynamic is registered the path /dynamic returns it with
\* no parameter bound, and once /[i] is registered the path /42 returns it
\* with i bound to 42.
C27_NoKeyCollision ==
    /\ [] NodesFitConfigs
    /\ [][addCalls' # addCalls /\ addOutcome'.config.path = SlashDynamic
          => LET m == matchRoute(SlashDynamic, routeTree')
             IN /\ m # undefined
                /\ m.route.path = SlashDynamic
                /\ m.params = NoParams]_vars
    /\ [][addCalls' # addCalls /\ addOutcome'.config.path = SlashI
          => LET m == matchRoute(<< "/", "4", "2" >>, routeTree')
             IN /\ m # undefined
                /\ m.route.path = SlashI
                /\ DOMAIN m.params = { << "i" >> }
                /\ m.params[<< "i" >>] = << "4", "2" >>]_vars

\* The parameter names a well-formed path pattern declares.
DeclaredNames(path) ==
    { DenotedSegments(path)[i].name :
        i \in { k \in 1..Len(SplitPath(path)) :
                  DenotedSegments(path)[k].type # STATIC } }

\* C28: the keys of the params of every match matchRoute returns are the
\* parameter names declared in the path of the configuration it returns,
\* also when routes naming the parameter of one tree position differently
\* were registered one after the other.
C28_ParamsAreDeclaredNames ==
    /\ matchResult # undefined
    /\ WellFormed(matchResult.route.path)
    => DOMAIN matchResult.params = DeclaredNames(matchResult.route.path)

-----------------------------------------------------------------------------
(* Properties of the tree as a whole, under SpecTree. *)

\* Tree `after` holds everything tree `before` holds: each node with its
\* segment, its children in their order, a configuration where it had one,
\* and its middleware list as the head of the new one.
Extends(before, after) ==
    /\ DOMAIN before \subseteq DOMAIN after
    /\ \A q \in DOMAIN before :
          /\ after[q].segment = before[q].segment
          /\ Len(after[q].children) >= Len(before[q].children)
          /\ SubSeq(after[q].children, 1, Len(before[q].children))
               = before[q].children
          /\ before[q].config # undefined => after[q].config # undefined
          /\ Len(after[q].middleware) >= Len(before[q].middleware)
          /\ SubSeq(after[q].middleware, 1, Len(before[q].middleware))
               = before[q].middleware

\* C25: a step that is not an addRoute call (a matchRoute call, validateMatch,
\* Router.use, Router.group, any step of Router.execute and of its chain)
\* leaves the route tree as it is; an addRoute call only adds: no node and no
\* child is removed, no configuration taken away; and a pathname navigated
\* to that matched a route before the call matches a route after it.
C25_TreeOnlyGrows ==
    [][IF addCalls' = addCalls
       THEN routeTree' = routeTree
       ELSE /\ Extends(routeTree, routeTree')
            /\ \A p \in RouterPaths :
                  matchRoute(p, routeTree) # undefined
                  => matchRoute(p, routeTree') # undefined]_vars

\* A navigation completed on a tree that two addRoute calls had built, the
\* second adding nodes to those of the first, with a handler of the caller's
\* in the global chain.
C25_NavigatedOnGrownTree ==
    /\ addCalls = 2
    /\ Cardinality(Configured(routeTree)) = 2
    /\ Len(middlewares) > Len(ConstructedChain)
    /\ navState = "Completed"

-----------------------------------------------------------------------------
(* Concurrent navigations. *)

\* What executeChain does with a list from position i on when nothing else
\* runs: the handlers it invokes in order, how it ends, and the error it
\* rejects with.
RECURSIVE AloneChain(_, _, _)
AloneChain(list, i, context) ==
    IF i > Len(list)
    THEN [names |-> << >>, ends |-> "resolved", error |-> undefined]
    ELSE LET m == list[i]
             rest == AloneChain(list, i + 1, context)
             thrown == MiddlewareError(m.name, HandlerError(m.name))
         IN  IF m.does = "noNext"
             THEN [names |-> << m.name >>, ends |-> "resolved", error |-> undefined]
             ELSE IF m.does = "throwBefore"
             THEN [names |-> << m.name >>, ends |-> "rejected", error |-> thrown]
             ELSE IF m.does = "hangsOnParams" /\ context.params # NoParams
             THEN [names |-> << m.name >>, ends |-> "pending", error |-> undefined]
             ELSE [names |-> << m.name >> \o rest.names,
                   ends |-> IF rest.ends = "resolved" /\ m.does = "throwAfter"
                            THEN "rejected" ELSE rest.ends,
                   error |-> IF rest.ends = "rejected"
                             THEN MiddlewareError(m.name, rest.error)
                             ELSE IF m.does = "throwAfter" /\ rest.ends = "resolved"
                             THEN thrown ELSE undefined]

\* What Router.execute(pathname) does when it is the only navigation: the
\* handlers invoked, the state it ends in ("MiddlewareRunning" when it never
\* ends) and what it returns or throws.
Alone(pathname) ==
    LET match == matchRoute(pathname, routeTree)
    IN  IF match = undefined
        THEN [names |-> << >>, nav |-> "NotFound",
              outcome |-> [threw |-> createError(ErrorCodes("ROUTE_NOT_FOUND"),
                                                 NotFoundMessage(pathname),
                                                 undefined)]]
        ELSE IF ~ validateMatch(match)
        THEN [names |-> << >>, nav |-> "NoPage",
              outcome |-> [threw |-> RouteHasNoPage(match)]]
        ELSE LET context == RouteContext(match, pathname)
                 before == AloneChain(BeforeMiddlewares(middlewares), 1, context)
                 after == AloneChain(AfterMiddlewares(middlewares), 1, context)
                 last == IF before.ends = "resolved" THEN after ELSE before
             IN  [names |-> IF before.ends = "resolved"
                            THEN before.names \o after.names ELSE before.names,
                  nav |-> CASE last.ends = "resolved" -> "Completed"
                            [] last.ends = "rejected" -> "Failed"
                            [] OTHER -> "MiddlewareRunning",
                  outcome |-> CASE last.ends = "resolved" -> [returned |-> context]
                                [] last.ends = "rejected" ->
                                     [threw |-> RouteExecutionFailed(last.error)]
                                [] OTHER -> undefined]

IsPrefix(s, t) == Len(s) =< Len(t) /\ SubSeq(t, 1, Len(s)) = s

\* C24: whatever the other navigations in flight are doing, a navigation
\* invokes the handlers it would invoke alone, in that order, ends as it
\* would end alone with the context or the error it would then have, and
\* while it has not come that far it always has a step it can take.
C24_NavigationsIndependent ==
    \A r \in 1..Len(runs) :
       LET run == runs[r]
           alone == Alone(run.pathname)
       IN  /\ IsPrefix(run.invoked, alone.names)
           /\ run.nav \in NavTerminal
              => /\ run.nav = alone.nav
                 /\ run.invoked = alone.names
                 /\ run.outcome = alone.outcome
           /\ run.nav = "MiddlewareRunning"
                 /\ ~ (alone.nav = "MiddlewareRunning" /\ run.invoked = alone.names)
              => ENABLED AwaitingStep(r)

\* One navigation is held for ever by a handler that never resolves, and a
\* navigation started after it has completed with its own context.
C24_CompletedBesideHung ==
    /\ Len(runs) = 2
    /\ runs[1].nav = "MiddlewareRunning"
    /\ Alone(runs[1].pathname).nav = "MiddlewareRunning"
    /\ runs[1].invoked = Alone(runs[1].pathname).names
    /\ runs[2].nav = "Completed"
    /\ runs[2].outcome = [returned |-> RouteContext(runs[2].match, runs[2].pathname)]
    /\ runs[2].pathname # runs[1].pathname

-----------------------------------------------------------------------------
(* Handlers that call next() more than once, or without awaiting it. *)

\* The position of the handler of that name in a list, 0 when it has none.
PositionIn(list, name) ==
    IF \E j \in 1..Len(list) : list[j].name = name
    THEN CHOOSE j \in 1..Len(list) : list[j].name = name
    ELSE 0

\* The k-th invocation of a run was made by the next() of the handler just
\* before the invoked one in its list, or by executeChain for the first.
InvokedByPredecessor(run, k) ==
    LET list == IF PositionIn(run.lists.before, run.invoked[k]) > 0
                THEN run.lists.before ELSE run.lists.after
        j == PositionIn(list, run.invoked[k])
    IN  run.calledBy[k] = IF j = 1 THEN ChainFrame.name ELSE list[j - 1].name

\* C30: in a navigation no handler is invoked twice, and a handler is
\* invoked only by the next() of the handler immediately before it in its
\* phase (the first of a phase by executeChain), however often next() is
\* called.
C30_RepeatedNextHarmless ==
    \A r \in 1..Len(runs) :
       /\ \A k, l \in 1..Len(runs[r].invoked) :
             runs[r].invoked[k] = runs[r].invoked[l] => k = l
       /\ \A k \in 1..Len(runs[r].invoked) : InvokedByPredecessor(runs[r], k)

\* The first half of C30 alone: no handler is invoked twice.
C30_NeverInvokedTwice ==
    \A r \in 1..Len(runs) :
       \A k, l \in 1..Len(runs[r].invoked) :
          runs[r].invoked[k] = runs[r].invoked[l] => k = l

\* A handler of that phase has been started in run r and has not finished:
\* one of the run's tasks still holds an activation of it.
Unfinished(r, phase) ==
    \E t \in 1..Len(runs[r].tasks) :
       /\ runs[r].tasks[t].phase = phase
       /\ \E d \in 1..Len(runs[r].tasks[t].stack) :
             runs[r].tasks[t].stack[d].mw.name \notin { ChainFrame.name, DroppedNext.name }

\* C23: a navigation goes on past a phase only when every handler started in
\* it has finished: while a before-phase handler is unfinished execute has
\* not entered the after list, and when Router.execute has returned the
\* context no handler of the navigation is unfinished; whether or not the
\* handlers await the promise next() returns.
C23_PhasesRunToCompletion ==
    \A r \in 1..Len(runs) :
       /\ Unfinished(r, "before")
          => /\ runs[r].tasks[1].phase = "before"
             /\ runs[r].index.after = 0
       /\ runs[r].nav = "Completed"
          => ~ Unfinished(r, "before") /\ ~ Unfinished(r, "after")

\* C23 for the handlers that await every next() they call.
C23_AwaitedPhasesRunToCompletion ==
    \A r \in 1..Len(runs) :
       (\A i \in 1..Len(middlewares) : middlewares[i].does # "dropsNext")
       => /\ Unfinished(r, "before")
             => /\ runs[r].tasks[1].phase = "before"
                /\ runs[r].index.after = 0
          /\ runs[r].nav = "Completed"
             => ~ Unfinished(r, "before") /\ ~ Unfinished(r, "after")

-----------------------------------------------------------------------------
(* The pending set drains. *)

\* C26: a key waits in the pending set only for something that will remove
\* it: while a key is pending, the timer of a pass is scheduled or a pass is
\* under way; so every pending key is removed by a pass, none stays pending
\* with no timer scheduled, and a stale read of a pending key need schedule
\* nothing.
C26_PendingKeysDrain ==
    revalidationQueue # {} => timers # << >> \/ inFlight > 0

-----------------------------------------------------------------------------
(* Optimistic updates rolled back. *)

\* The mutate calls made on a key, by their place among the calls.
CallsOn(key) == { m \in 1..Len(mutations) : mutations[m].key = key }

FirstOn(key) == CHOOSE m \in CallsOn(key) : \A n \in CallsOn(key) : m =< n

\* C29: once every mutate call made on a key with optimisticUpdate and
\* rollbackOnError has failed, the data cached for the key is the data it
\* held before the first of them started.
C29_RollbackRestoresOriginal ==
    \A key \in Keys :
       /\ CallsOn(key) # {}
       /\ \A m \in CallsOn(key) :
             /\ mutations[m].state = "rejected"
             /\ mutations[m].options.optimisticUpdate
             /\ mutations[m].options.rollbackOnError
       => DataIn(cache[key]) = mutations[FirstOn(key)].currentData

\* C29 for calls that do not overlap on a key: each had failed before the
\* next read the cache, which shows in what the next read.
C29_SequentialRollbackRestores ==
    \A key \in Keys :
       /\ CallsOn(key) # {}
       /\ \A m \in CallsOn(key) :
             /\ mutations[m].state = "rejected"
             /\ mutations[m].options.optimisticUpdate
             /\ mutations[m].options.rollbackOnError
             /\ mutations[m].currentData = mutations[FirstOn(key)].currentData
       => DataIn(cache[key]) = mutations[FirstOn(key)].currentData

=============================================================================
